---- MODULE Spec2Model ----
(***************************************************************************)
(* EXIF-Viewer core: EXIFExtractor (src/src/core/exif_extractor.py) and    *)
(* FileProcessor (src/src/core/file_processor.py).                         *)
(*                                                                         *)
(* A path is a record [name, suffix]: suffix is Path(p).suffix as written  *)
(* by the caller (case preserved).  A Record (the dict extract_exif_data   *)
(* returns) is a function from the keys it holds to their values.  The     *)
(* metadata sources, the file system and the interpreter are the           *)
(* environment: what they answer to one extraction is a record "env" that  *)
(* the extraction receives, drawn from a small set.                        *)
(***************************************************************************)
EXTENDS Integers, Sequences, FiniteSets, TLC

\* ------------------------------------------------------------------ bounds
\* longest list of paths handed to process_files
MaxPaths == 3

\* ------------------------------------------------------------- extensions
supported_image_formats == {".jpg", ".jpeg", ".tiff", ".tif", ".png", ".bmp", ".gif"}

supported_video_formats == {".mp4", ".avi", ".mov", ".mkv", ".wmv"}

supported_audio_formats == {".mp3", ".wav", ".flac", ".m4a"}

\* the suffix is compared as written
Lower_not(s) == s

\* str.lower() on the suffixes the model uses
Lower(s) ==
  CASE s = ".JPG" -> ".jpg"
    [] s = ".Mp4" -> ".mp4"
    [] s = ".TXT" -> ".txt"
    [] s = "JSON" -> "json"
    [] s = "Csv" -> "csv"
    [] s = "Txt" -> "txt"
    [] OTHER -> s

\* Path(file_path).suffix.lower()
Ext(p) == Lower(p.suffix)

is_supported_file(p) ==
  Ext(p) \in (supported_image_formats \cup supported_video_formats
                \cup supported_audio_formats)

\* ------------------------------------------------------------ file system
Path(n, s) == [name |-> n, suffix |-> s]

\* the files that exist (os.path.exists is true of them)
ExistingFiles ==
  { Path("a", ".jpg"), Path("b", ".JPG"), Path("clip", ".mp4"),
    Path("song", ".mp3"), Path("tone", ".wav"), Path("take", ".flac"),
    Path("memo", ".m4a"), Path("notes", ".txt") }

\* paths that name no file
MissingFiles ==
  { Path("gone", ".jpg"), Path("gone", ".txt"), Path("gone", ".mp4") }

AllPaths == ExistingFiles \cup MissingFiles

\* the paths is_supported_file is asked about: every listed extension, some
\* in upper or mixed case, and extensions that are not listed
SupportPaths ==
  { Path("test", e) :
      e \in supported_image_formats \cup supported_video_formats
             \cup supported_audio_formats
             \cup {".JPG", ".Mp4", ".TXT", ".txt", ".doc", ".jpgx", ""} }

\* os.path.exists(file_path)
Exists(p) == p \in ExistingFiles

\* ---------------------------------------------------------------- records
\* A raw tag value is <<type, text>>; str(value) is the string with that text.
Str(v) == <<"str", v[2]>>

\* an f-string "<prefix><cause>"; a literal message has no cause
Msg(prefix, cause) == <<prefix, cause>>

\* {"error": msg}
ErrorRecord(msg) == [k \in {"error"} |-> msg]

\* the empty dict {}
EmptyDict == [k \in {} |-> <<"str", "">>]

\* d with d[key] = value
Put(d, key, value) ==
  [k \in DOMAIN d \cup {key} |-> IF k = key THEN value ELSE d[k]]

\* d.update(e)
Update(d, e) ==
  [k \in DOMAIN d \cup DOMAIN e |-> IF k \in DOMAIN e THEN e[k] ELSE d[k]]

\* ------------------------------------------------------------ GPS decoder
\* PIL.ExifTags.GPSTAGS.get(key, key) on the indices the model uses
GPSTAGS(key) ==
  CASE key = 1 -> "GPSLatitudeRef"
    [] key = 2 -> "GPSLatitude"
    [] key = 3 -> "GPSLongitudeRef"
    [] key = 4 -> "GPSLongitude"
    [] OTHER -> "GPSTag"

\* A raw GPS value is [text, comps]: text is its str(), comps its elements
\* (len(value) = Len(comps)); an element is [num, val]: float(element) is val
\* when num, and raises when not.  Degrees are counted in 1/3600 of a degree,
\* so d + m/60 + s/3600 is exact on integer components.
NoValue == [text |-> "", comps |-> <<>>]

\* gps_info.get(key, [])
GpsGet(gps_info, key) == IF key \in DOMAIN gps_info THEN gps_info[key] ELSE NoValue

\* float(value[i]) raises for some i in 1..3
ConvertRaises(value) ==
  Len(value.comps) = 3 /\ \E i \in 1..3 : ~value.comps[i].num

\* str.upper() on the ref texts the model uses
Upper(t) ==
  CASE t = "s" -> "S"
    [] t = "w" -> "W"
    [] OTHER -> t

\* the ref is compared without regard to case
RefIs_nocase(gps_info, key, literal) ==
  key \in DOMAIN gps_info /\ Upper(gps_info[key].text) = literal

\* gps_info.get(key) == literal
RefIs(gps_info, key, literal) ==
  key \in DOMAIN gps_info /\ gps_info[key].text = literal

\* a triple with missing components is read as if they were 0, and a longer
\* one by its first three
_convert_to_degrees_padded(value) ==
  LET c(i) == IF i <= Len(value.comps) THEN value.comps[i].val ELSE 0
  IN  3600 * c(1) + 60 * c(2) + c(3)

_convert_to_degrees(value) ==
  IF Len(value.comps) # 3 THEN 0
  ELSE 3600 * value.comps[1].val + 60 * value.comps[2].val + value.comps[3].val

\* the latitude is stored before the longitude is converted
_parse_gps_data_partial(gps_info) ==
  LET gps_data == [n \in {GPSTAGS(k) : k \in DOMAIN gps_info} |->
                     LET k == CHOOSE j \in DOMAIN gps_info : GPSTAGS(j) = n
                     IN  <<"str", gps_info[k].text>>]
      lat0 == _convert_to_degrees(GpsGet(gps_info, 2))
      lon0 == _convert_to_degrees(GpsGet(gps_info, 4))
      lat == IF RefIs(gps_info, 1, "S") THEN -lat0 ELSE lat0
      lon == IF RefIs(gps_info, 3, "W") THEN -lon0 ELSE lon0
  IN  IF DOMAIN gps_info = {} THEN [k \in {} |-> <<"str", "">>]
      ELSE IF "GPSLatitude" \in DOMAIN gps_data /\ "GPSLongitude" \in DOMAIN gps_data
                /\ ~ConvertRaises(GpsGet(gps_info, 2))
           THEN IF ConvertRaises(GpsGet(gps_info, 4))
                THEN Put(gps_data, "DecimalLatitude", lat)
                ELSE Put(Put(gps_data, "DecimalLatitude", lat), "DecimalLongitude", lon)
           ELSE gps_data

_parse_gps_data(gps_info) ==
  LET gps_data == [n \in {GPSTAGS(k) : k \in DOMAIN gps_info} |->
                     LET k == CHOOSE j \in DOMAIN gps_info : GPSTAGS(j) = n
                     IN  <<"str", gps_info[k].text>>]
      lat0 == _convert_to_degrees(GpsGet(gps_info, 2))
      lon0 == _convert_to_degrees(GpsGet(gps_info, 4))
      lat == IF RefIs(gps_info, 1, "S") THEN -lat0 ELSE lat0
      lon == IF RefIs(gps_info, 3, "W") THEN -lon0 ELSE lon0
  IN  IF DOMAIN gps_info = {} THEN [k \in {} |-> <<"str", "">>]
      ELSE IF "GPSLatitude" \in DOMAIN gps_data /\ "GPSLongitude" \in DOMAIN gps_data
                /\ ~ConvertRaises(GpsGet(gps_info, 2))
                /\ ~ConvertRaises(GpsGet(gps_info, 4))
           THEN Put(Put(gps_data, "DecimalLatitude", lat), "DecimalLongitude", lon)
           ELSE gps_data

\* --------------------------------------------------------------- extractor
\* What the environment answers to one extraction:
\*   stat_ok           os.stat(file_path) succeeds (the file is still there)
\*   primary_raises    Image.open / img._getexif raises
\*   primary_tags      img._getexif() with its ids decoded by TAGS.get
\*   gps_info          the value of the GPSInfo tag
\*   secondary_raises  open / exifread.process_file raises
\*   secondary_tags    exifread.process_file(f)
\*   probe             how the ffprobe run ends ("badjson": exit status 0 with
\*                     an output json.loads rejects; "raises": another exception)
\*   mutagen           how the mutagen import and MP3(file_path) end
\*   cause             str(e) of whatever is raised
_get_file_info(p) ==
  [k \in {"File Name", "File Path", "File Size", "Created", "Modified", "Extension"} |->
     CASE k = "File Name" -> <<p.name, p.suffix>>
       [] k = "File Path" -> <<p.name, p.suffix>>
       [] k = "Extension" -> <<"str", Ext(p)>>
       [] OTHER -> <<"str", "stat">>]

CameraTags == {"Make", "Model", "LensMake", "LensModel"}

ImageTags == {"ImageWidth", "ImageLength", "Orientation", "ColorSpace"}

\* the loop over exif_dict.items(), lines 62-72, then image_info.update, 75-79
ClassifyPrimary(metadata, env) ==
  LET tags == env.primary_tags
      gps == IF "GPSInfo" \in DOMAIN tags THEN _parse_gps_data(env.gps_info)
             ELSE metadata["gps_data"]
      camera == [t \in DOMAIN tags \cap CameraTags |-> Str(tags[t])]
      image == [t \in DOMAIN tags \cap ImageTags |-> Str(tags[t])]
      other == [t \in DOMAIN tags \ (CameraTags \cup ImageTags \cup {"GPSInfo"}) |->
                  Str(tags[t])]
      basic == [k \in {"Format", "Mode", "Size"} |-> <<"str", k>>]
  IN  [metadata EXCEPT !["gps_data"] = gps,
                       !["camera_info"] = Update(@, camera),
                       !["image_info"] = Update(Update(@, image), basic),
                       !["exif_data"] = Update(@, other)]

\* the secondary value replaces the primary one
MergeSecondary_overwrite(metadata, env) ==
  LET tags == env.secondary_tags
      all == [k \in DOMAIN tags |-> Str(tags[k])]
  IN  [metadata EXCEPT !["exif_data"] = Update(@, all)]

\* the loop over tags.items(), lines 84-86
MergeSecondary(metadata, env) ==
  LET tags == env.secondary_tags
      fresh == [k \in DOMAIN tags \ DOMAIN metadata["exif_data"] |-> Str(tags[k])]
  IN  [metadata EXCEPT !["exif_data"] = Update(@, fresh)]

\* the except clause starts over from an empty metadata dict
_extract_image_exif_reset(p, env) ==
  LET metadata == [k \in {"file_info", "exif_data", "gps_data", "camera_info",
                          "image_info"} |->
                     IF k = "file_info" THEN _get_file_info(p) ELSE EmptyDict]
  IN  IF env.primary_raises \/ env.secondary_raises
      THEN Put(metadata, "error", Msg("Error reading image EXIF: ", env.cause))
      ELSE MergeSecondary(ClassifyPrimary(metadata, env), env)

_extract_image_exif(p, env) ==
  LET metadata == [k \in {"file_info", "exif_data", "gps_data", "camera_info",
                          "image_info"} |->
                     IF k = "file_info" THEN _get_file_info(p) ELSE EmptyDict]
  IN  IF env.primary_raises
      THEN Put(metadata, "error", Msg("Error reading image EXIF: ", env.cause))
      ELSE IF env.secondary_raises
      THEN Put(ClassifyPrimary(metadata, env), "error",
               Msg("Error reading image EXIF: ", env.cause))
      ELSE MergeSecondary(ClassifyPrimary(metadata, env), env)

\* FileNotFoundError and TimeoutExpired are not swallowed
_extract_video_exif_strict(p, env) ==
  LET metadata == [k \in {"file_info", "video_info", "exif_data"} |->
                     IF k = "file_info" THEN _get_file_info(p) ELSE EmptyDict]
      format == [k \in {"format_name", "duration"} |-> <<"str", k>>]
      streams == [k \in {"0"} |-> <<"str", "stream">>]
  IN  CASE env.probe = "nonzero" -> metadata
        [] env.probe = "ok" ->
             Put(Put(metadata, "video_info", format), "streams", streams)
        [] OTHER -> Put(metadata, "error",
                        Msg("Error reading video metadata: ", env.cause))

\* every failure of the probe is swallowed
_extract_video_exif_lenient(p, env) ==
  LET metadata == [k \in {"file_info", "video_info", "exif_data"} |->
                     IF k = "file_info" THEN _get_file_info(p) ELSE EmptyDict]
      format == [k \in {"format_name", "duration"} |-> <<"str", k>>]
      streams == [k \in {"0"} |-> <<"str", "stream">>]
  IN  IF env.probe = "ok"
      THEN Put(Put(metadata, "video_info", format), "streams", streams)
      ELSE metadata

_extract_video_exif(p, env) ==
  LET metadata == [k \in {"file_info", "video_info", "exif_data"} |->
                     IF k = "file_info" THEN _get_file_info(p) ELSE EmptyDict]
      format == [k \in {"format_name", "duration"} |-> <<"str", k>>]
      streams == [k \in {"0"} |-> <<"str", "stream">>]
  IN  CASE env.probe \in {"absent", "timeout", "nonzero"} -> metadata
        [] env.probe = "ok" ->
             Put(Put(metadata, "video_info", format), "streams", streams)
        [] OTHER -> Put(metadata, "error",
                        Msg("Error reading video metadata: ", env.cause))

\* the missing import is passed over in silence
_extract_audio_exif_silent(p, env) ==
  LET metadata == [k \in {"file_info", "audio_info", "exif_data"} |->
                     IF k = "file_info" THEN _get_file_info(p) ELSE EmptyDict]
      info == [k \in {"Length", "Bitrate", "Sample Rate"} |-> <<"str", k>>]
      frames == [k \in {"TIT2"} |-> <<"str", "title">>]
  IN  IF Ext(p) # ".mp3" THEN metadata
      ELSE CASE env.mutagen = "missing" -> metadata
             [] env.mutagen = "ok" ->
                  Put(Put(metadata, "audio_info", info), "exif_data", frames)
             [] OTHER -> Put(metadata, "error",
                             Msg("Error reading audio metadata: ", env.cause))

_extract_audio_exif(p, env) ==
  LET metadata == [k \in {"file_info", "audio_info", "exif_data"} |->
                     IF k = "file_info" THEN _get_file_info(p) ELSE EmptyDict]
      info == [k \in {"Length", "Bitrate", "Sample Rate"} |-> <<"str", k>>]
      frames == [k \in {"TIT2"} |-> <<"str", "title">>]
  IN  IF Ext(p) # ".mp3" THEN metadata
      ELSE CASE env.mutagen = "missing" ->
                  Put(metadata, "error",
                      Msg("Install mutagen library for full audio metadata support", ""))
             [] env.mutagen = "ok" ->
                  Put(Put(metadata, "audio_info", info), "exif_data", frames)
             [] OTHER -> Put(metadata, "error",
                             Msg("Error reading audio metadata: ", env.cause))

\* the extension is looked at before the existence of the file
extract_exif_data_ext_first(p, env) ==
  IF Ext(p) \notin (supported_image_formats \cup supported_video_formats
                      \cup supported_audio_formats)
  THEN ErrorRecord(Msg("Unsupported file format", ""))
  ELSE IF ~Exists(p) THEN ErrorRecord(Msg("File not found", ""))
  ELSE IF ~env.stat_ok
  THEN ErrorRecord(Msg("Failed to extract EXIF data: ", env.cause))
  ELSE IF Ext(p) \in supported_image_formats THEN _extract_image_exif(p, env)
  ELSE IF Ext(p) \in supported_video_formats THEN _extract_video_exif(p, env)
  ELSE _extract_audio_exif(p, env)

\* no existence check: a missing file fails in os.stat
extract_exif_data_no_exists(p, env) ==
  IF Ext(p) \notin (supported_image_formats \cup supported_video_formats
                      \cup supported_audio_formats)
  THEN ErrorRecord(Msg("Unsupported file format", ""))
  ELSE IF ~Exists(p) \/ ~env.stat_ok
  THEN ErrorRecord(Msg("Failed to extract EXIF data: ", env.cause))
  ELSE IF Ext(p) \in supported_image_formats THEN _extract_image_exif(p, env)
  ELSE IF Ext(p) \in supported_video_formats THEN _extract_video_exif(p, env)
  ELSE _extract_audio_exif(p, env)

\* the catch-all swallows the exception and returns an empty dict
extract_exif_data_swallow(p, env) ==
  IF ~Exists(p) THEN ErrorRecord(Msg("File not found", ""))
  ELSE IF Ext(p) \notin (supported_image_formats \cup supported_video_formats
                           \cup supported_audio_formats)
  THEN ErrorRecord(Msg("Unsupported file format", ""))
  ELSE IF ~env.stat_ok THEN EmptyDict
  ELSE IF Ext(p) \in supported_image_formats THEN _extract_image_exif(p, env)
  ELSE IF Ext(p) \in supported_video_formats THEN _extract_video_exif(p, env)
  ELSE _extract_audio_exif(p, env)

\* the failure of os.stat is caught in the handler, next to the empty fields
extract_exif_data_stat_in_handler(p, env) ==
  IF ~Exists(p) THEN ErrorRecord(Msg("File not found", ""))
  ELSE IF Ext(p) \notin (supported_image_formats \cup supported_video_formats
                           \cup supported_audio_formats)
  THEN ErrorRecord(Msg("Unsupported file format", ""))
  ELSE IF ~env.stat_ok
  THEN [k \in {"file_info", "exif_data", "error"} |->
          IF k = "error" THEN Msg("Failed to extract EXIF data: ", env.cause)
          ELSE EmptyDict]
  ELSE IF Ext(p) \in supported_image_formats THEN _extract_image_exif(p, env)
  ELSE IF Ext(p) \in supported_video_formats THEN _extract_video_exif(p, env)
  ELSE _extract_audio_exif(p, env)

extract_exif_data(p, env) ==
  IF ~Exists(p) THEN ErrorRecord(Msg("File not found", ""))
  ELSE IF Ext(p) \notin (supported_image_formats \cup supported_video_formats
                           \cup supported_audio_formats)
  THEN ErrorRecord(Msg("Unsupported file format", ""))
  ELSE IF ~env.stat_ok
  THEN ErrorRecord(Msg("Failed to extract EXIF data: ", env.cause))
  ELSE IF Ext(p) \in supported_image_formats THEN _extract_image_exif(p, env)
  ELSE IF Ext(p) \in supported_video_formats THEN _extract_video_exif(p, env)
  ELSE _extract_audio_exif(p, env)

\* ------------------------------------------------------------ environment
Causes == {"denied", "truncated"}

NoGps == [k \in {} |-> NoValue]

DefaultEnv ==
  [stat_ok |-> TRUE, primary_raises |-> FALSE, primary_tags |-> EmptyDict,
   gps_info |-> NoGps, secondary_raises |-> FALSE, secondary_tags |-> EmptyDict,
   probe |-> "ok", mutagen |-> "ok", cause |-> "denied"]

\* what img._getexif() can hold
PrimaryTagSets ==
  { EmptyDict,
    [t \in {"Make", "ISOSpeedRatings"} |->
       IF t = "Make" THEN <<"str", "Canon">> ELSE <<"int", "100">>],
    [t \in {"Orientation", "GPSInfo"} |-> <<"int", "1">>] }

\* what exifread.process_file can hold
SecondaryTagSets ==
  { EmptyDict,
    [t \in {"ISOSpeedRatings", "EXIF ExposureTime"} |-> <<"ratio", "1/200">>],
    [t \in {"Image Make", "Image Orientation", "GPS GPSLatitude"} |->
       <<"ifdtag", "value">>] }

\* exifread names a tag "<IFD> <tag name>": the tag name of a key
TagName(key) ==
  CASE key = "Image Make" -> "Make"
    [] key = "Image Orientation" -> "Orientation"
    [] key = "GPS GPSLatitude" -> "GPSLatitude"
    [] key = "EXIF ExposureTime" -> "ExposureTime"
    [] OTHER -> key

\* the key names a tag of the GPS IFD
GpsOrigin(key) == key \in {"GPSInfo", "GPS GPSLatitude"}

Num(n) == [num |-> TRUE, val |-> n]

\* an element float() rejects
NotANumber == [num |-> FALSE, val |-> 0]

\* a hemisphere ref as the source returns it
Ref(t) == [text |-> t, comps |-> <<>>]

\* the marker of a key the GPS mapping does not hold
Absent == [text |-> "absent", comps |-> <<>>]

\* the refs a file can carry at index 1 and at index 3
LatRefs == {Ref("N"), Ref("S"), Ref("s"), Absent}

LonRefs == {Ref("E"), Ref("W"), Ref("w"), Absent}

\* the coordinate values a file can carry at index 2 and at index 4: well
\* formed, out of the range of a coordinate, too short, too long, not numbers
Triples ==
  { [text |-> "(40, 26, 46)", comps |-> <<Num(40), Num(26), Num(46)>>],
    [text |-> "(79, 56, 55)", comps |-> <<Num(79), Num(56), Num(55)>>],
    [text |-> "(200, 0, 0)", comps |-> <<Num(200), Num(0), Num(0)>>],
    [text |-> "(40, 26)", comps |-> <<Num(40), Num(26)>>],
    [text |-> "(1, 2, 3, 4)", comps |-> <<Num(1), Num(2), Num(3), Num(4)>>],
    [text |-> "(40, None, 0)", comps |-> <<Num(40), NotANumber, Num(0)>>],
    Absent }

\* the GPS mapping with the given values at indices 1..4
GpsInfo(r1, t2, r3, t4) ==
  LET v == <<r1, t2, r3, t4>>
  IN  [k \in {j \in 1..4 : v[j] # Absent} |-> v[k]]

\* the value of the GPSInfo tag
GpsInfos ==
  { GpsInfo(r1, t2, r3, t4) : r1 \in LatRefs, t2 \in Triples, r3 \in LonRefs,
                              t4 \in Triples }

\* no GPS mapping, and the one of the decodeGPS example
BasicGpsInfos ==
  { NoGps,
    GpsInfo(Ref("N"), [text |-> "(40, 26, 46)", comps |-> <<Num(40), Num(26), Num(46)>>],
            Ref("W"), [text |-> "(79, 56, 55)", comps |-> <<Num(79), Num(56), Num(55)>>]) }

\* a readable image whose primary source holds a GPSInfo tag
GpsImageEnvs ==
  { [DefaultEnv EXCEPT !.primary_tags = [t \in {"Orientation", "GPSInfo"} |-> <<"int", "1">>],
                       !.gps_info = g] : g \in GpsInfos }

ImageEnvs ==
  { [DefaultEnv EXCEPT !.stat_ok = so, !.primary_raises = pr, !.primary_tags = pt,
                       !.gps_info = g, !.secondary_raises = sr,
                       !.secondary_tags = st, !.cause = c] :
      so \in BOOLEAN, pr \in BOOLEAN, pt \in PrimaryTagSets, g \in BasicGpsInfos,
      sr \in BOOLEAN, st \in SecondaryTagSets, c \in Causes }
    \cup GpsImageEnvs

VideoEnvs ==
  { [DefaultEnv EXCEPT !.stat_ok = so, !.probe = pb, !.cause = c] :
      so \in BOOLEAN,
      pb \in {"absent", "timeout", "nonzero", "ok", "badjson", "raises"},
      c \in Causes }

AudioEnvs ==
  { [DefaultEnv EXCEPT !.stat_ok = so, !.mutagen = m, !.cause = c] :
      so \in BOOLEAN, m \in {"missing", "ok", "raises"}, c \in Causes }

\* the answers the environment can give to an extraction of p
EnvsFor(p) ==
  IF Ext(p) \in supported_image_formats THEN ImageEnvs
  ELSE IF Ext(p) \in supported_video_formats THEN VideoEnvs
  ELSE IF Ext(p) \in supported_audio_formats THEN AudioEnvs
  ELSE {DefaultEnv}

\* ----------------------------------------------------- geotagged filter
\* every entry whose gps_data is not empty is kept
filter_geotagged_files_any(rs) ==
  LET keep == {q \in DOMAIN rs :
                 "gps_data" \in DOMAIN rs[q] /\ DOMAIN rs[q]["gps_data"] # {}}
  IN  [q \in keep |-> rs[q]]

filter_geotagged_files(rs) ==
  LET keep == {q \in DOMAIN rs :
                 /\ "gps_data" \in DOMAIN rs[q]
                 /\ DOMAIN rs[q]["gps_data"] # {}
                 /\ "DecimalLatitude" \in DOMAIN rs[q]["gps_data"]
                 /\ "DecimalLongitude" \in DOMAIN rs[q]["gps_data"]}
  IN  [q \in keep |-> rs[q]]

\* the paths of the dicts handed to filter_geotagged_files
FilterPaths ==
  << Path("a", ".jpg"), Path("b", ".JPG"), Path("clip", ".mp4"), Path("gone", ".jpg") >>

\* what the sources answered when the Records of such a dict were extracted:
\* no GPS tag, coordinates that decode, coordinates float() rejects
FilterEnvs(p) ==
  IF Ext(p) \in supported_image_formats
  THEN { DefaultEnv }
       \cup { [DefaultEnv EXCEPT
                 !.primary_tags = [t \in {"Orientation", "GPSInfo"} |-> <<"int", "1">>],
                 !.gps_info = g] :
              g \in BasicGpsInfos \cup
                { GpsInfo(Ref("S"),
                          [text |-> "(40, None, 0)",
                           comps |-> <<Num(40), NotANumber, Num(0)>>],
                          Ref("E"),
                          [text |-> "(79, 56, 55)",
                           comps |-> <<Num(79), Num(56), Num(55)>>]) } }
  ELSE { DefaultEnv }

\* the Records a dict can hold for p
FilterRecords(p) == { extract_exif_data(p, env) : env \in FilterEnvs(p) }

\* the marker of a path the dict has no entry for
NoEntry == [k \in {"no entry"} |-> <<"", "">>]

\* the dict that holds choice[i] for FilterPaths[i], where that is a Record
ResultSet(choice) ==
  [p \in {FilterPaths[i] : i \in {j \in DOMAIN FilterPaths : choice[j] # NoEntry}} |->
     choice[CHOOSE i \in DOMAIN FilterPaths : FilterPaths[i] = p]]

\* the dicts handed to filter_geotagged_files: path -> Record
ResultSets ==
  { ResultSet(<<r1, r2, r3, r4>>) :
      r1 \in FilterRecords(FilterPaths[1]) \cup {NoEntry},
      r2 \in FilterRecords(FilterPaths[2]) \cup {NoEntry},
      r3 \in FilterRecords(FilterPaths[3]) \cup {NoEntry},
      r4 \in FilterRecords(FilterPaths[4]) \cup {NoEntry} }

\* ------------------------------------------------------ directory scan
\* An entry of the disk: the names of the directories above it, its own name
\* split as Path(...).stem and Path(...).suffix, and what it is.
Entry(d, n, s, k) == [dir |-> d, name |-> n, suffix |-> s, kind |-> k]

\* the directories of the disk
Directories ==
  { Entry(<<>>, "d", "", "dir"), Entry(<<"d">>, "a", "", "dir"),
    Entry(<<"d", "a">>, "e", "", "dir"), Entry(<<"d">>, "x", ".jpg", "dir") }

\* the files a disk may hold
ScanFiles ==
  { Entry(<<"d">>, "a", ".jpg", "file"), Entry(<<"d">>, "Z", ".png", "file"),
    Entry(<<"d">>, "notes", ".txt", "file"), Entry(<<"d", "a">>, "c", ".mp4", "file"),
    Entry(<<"d", "a", "e">>, "b", ".JPG", "file") }

Disks == { Directories \cup present : present \in SUBSET ScanFiles }

\* the directory_path arguments: directories, a path that may name a file, a
\* path that names nothing
ScanArguments ==
  { Entry(<<>>, "d", "", "dir"), Entry(<<"d">>, "a", "", "dir"),
    Entry(<<"d">>, "x", ".jpg", "dir"), Entry(<<"d">>, "a", ".jpg", "file"),
    Entry(<<>>, "nowhere", "", "dir") }

\* the characters of the strings the model uses, as code points
Chars(t) ==
  CASE t = "d" -> <<100>>
    [] t = "a" -> <<97>>
    [] t = "e" -> <<101>>
    [] t = "x" -> <<120>>
    [] t = "c" -> <<99>>
    [] t = "b" -> <<98>>
    [] t = "Z" -> <<90>>
    [] t = "notes" -> <<110, 111, 116, 101, 115>>
    [] t = "nowhere" -> <<110, 111, 119, 104, 101, 114, 101>>
    [] t = ".jpg" -> <<46, 106, 112, 103>>
    [] t = ".JPG" -> <<46, 74, 80, 71>>
    [] t = ".png" -> <<46, 112, 110, 103>>
    [] t = ".mp4" -> <<46, 109, 112, 52>>
    [] t = ".txt" -> <<46, 116, 120, 116>>
    [] t = "clip" -> <<99, 108, 105, 112>>
    [] t = "gone" -> <<103, 111, 110, 101>>
    [] t = "q\"\\n" -> <<113, 34, 92, 110>>
    [] t = "File Path" -> <<70, 105, 108, 101, 32, 80, 97, 116, 104>>
    [] t = "File_" -> <<70, 105, 108, 101, 95>>
    [] t = "EXIF_" -> <<69, 88, 73, 70, 95>>
    [] t = "GPS_" -> <<71, 80, 83, 95>>
    [] t = "Camera_" -> <<67, 97, 109, 101, 114, 97, 95>>
    [] t = "Image_" -> <<73, 109, 97, 103, 101, 95>>
    [] t = "File Name" -> <<70, 105, 108, 101, 32, 78, 97, 109, 101>>
    [] t = "File Size" -> <<70, 105, 108, 101, 32, 83, 105, 122, 101>>
    [] t = "Created" -> <<67, 114, 101, 97, 116, 101, 100>>
    [] t = "Modified" -> <<77, 111, 100, 105, 102, 105, 101, 100>>
    [] t = "Extension" -> <<69, 120, 116, 101, 110, 115, 105, 111, 110>>
    [] t = "Format" -> <<70, 111, 114, 109, 97, 116>>
    [] t = "Mode" -> <<77, 111, 100, 101>>
    [] t = "Size" -> <<83, 105, 122, 101>>
    [] t = "Orientation" -> <<79, 114, 105, 101, 110, 116, 97, 116, 105, 111, 110>>
    [] t = "GPSLatitudeRef" -> <<71, 80, 83, 76, 97, 116, 105, 116, 117, 100, 101, 82, 101, 102>>
    [] t = "GPSLatitude" -> <<71, 80, 83, 76, 97, 116, 105, 116, 117, 100, 101>>
    [] t = "GPSLongitudeRef" -> <<71, 80, 83, 76, 111, 110, 103, 105, 116, 117, 100, 101, 82, 101, 102>>
    [] t = "GPSLongitude" -> <<71, 80, 83, 76, 111, 110, 103, 105, 116, 117, 100, 101>>
    [] t = "DecimalLatitude" -> <<68, 101, 99, 105, 109, 97, 108, 76, 97, 116, 105, 116, 117, 100, 101>>
    [] t = "DecimalLongitude" -> <<68, 101, 99, 105, 109, 97, 108, 76, 111, 110, 103, 105, 116, 117, 100, 101>>
    [] t = "Make" -> <<77, 97, 107, 101>>
    [] t = "ISOSpeedRatings" -> <<73, 83, 79, 83, 112, 101, 101, 100, 82, 97, 116, 105, 110, 103, 115>>
    [] t = "EXIF ExposureTime" -> <<69, 88, 73, 70, 32, 69, 120, 112, 111, 115, 117, 114, 101, 84, 105, 109, 101>>
    [] OTHER -> <<>>

\* str(file_path): the directories, each followed by "/", then the name
RECURSIVE DirStr(_)
DirStr(d) ==
  IF d = <<>> THEN <<>> ELSE Chars(Head(d)) \o <<47>> \o DirStr(Tail(d))

PathStr(e) == DirStr(e.dir) \o Chars(e.name) \o Chars(e.suffix)

\* s < t on str
StrLess(s, t) ==
  \/ Len(s) < Len(t) /\ \A i \in 1..Len(s) : s[i] = t[i]
  \/ \E i \in 1..Len(s) :
       /\ i <= Len(t)
       /\ s[i] < t[i]
       /\ \A j \in 1..(i - 1) : s[j] = t[j]

\* the list is returned in the order glob gave
sorted_not(seq) == seq

\* sorted(files)
RECURSIVE sorted(_)
sorted(seq) ==
  IF seq = <<>> THEN <<>>
  ELSE LET rest == sorted(Tail(seq))
           k == Cardinality({i \in DOMAIN rest : StrLess(rest[i], Head(seq))})
       IN  SubSeq(rest, 1, k) \o <<Head(seq)>> \o SubSeq(rest, k + 1, Len(rest))

\* os.path.isdir(directory_path)
isdir(disk, p) ==
  \E e \in disk : e.kind = "dir" /\ e.dir = p.dir /\ e.name = p.name
                    /\ e.suffix = p.suffix

\* the names of the directories from the root down to p itself (a directory
\* that holds entries has no suffix)
DirNames(p) == p.dir \o <<p.name>>

IsPrefix(a, b) == Len(a) <= Len(b) /\ SubSeq(b, 1, Len(a)) = a

\* directory.glob("**/*") or directory.glob("*")
glob(disk, dir, rec) ==
  IF dir.suffix # "" THEN {}
  ELSE { e \in disk : IF rec THEN IsPrefix(DirNames(dir), e.dir)
                            ELSE e.dir = DirNames(dir) }

\* the entries of the glob that pass line 65
Found(disk, dir, rec) ==
  IF ~isdir(disk, dir) THEN {}
  ELSE { e \in glob(disk, dir, rec) : e.kind = "file" /\ is_supported_file(e) }

\* the orders in which glob can hand over a set of entries
Orders(S) ==
  { o \in [1..Cardinality(S) -> S] : \A i, j \in DOMAIN o : o[i] = o[j] => i = j }

scan_directory(disk, dir, rec, order) ==
  IF ~isdir(disk, dir) THEN <<>>
  ELSE sorted([i \in DOMAIN order |-> PathStr(order[i])])

\* ---------------------------------------------------------- DataExporter
\* self.supported_formats
supported_formats == {"json", "csv", "txt"}

\* the format_type arguments
ExportFormats == {"json", "JSON", "csv", "Csv", "txt", "Txt", "xml", ""}

\* the paths of the dicts handed to export_data; the last one is a file whose
\* name holds a double quote and a backslash
ExportPaths ==
  << Path("a", ".jpg"), Path("clip", ".mp4"), Path("gone", ".jpg"),
     Path("q\"\\n", ".jpg") >>

\* a readable image with camera and EXIF tags in both sources
TaggedEnv ==
  [DefaultEnv EXCEPT
     !.primary_tags = [t \in {"Make", "ISOSpeedRatings"} |->
                         IF t = "Make" THEN <<"str", "Canon">> ELSE <<"int", "100">>],
     !.secondary_tags = [t \in {"ISOSpeedRatings", "EXIF ExposureTime"} |->
                           <<"ratio", "1/200">>]]

\* the Records a dict handed to export_data can hold for ExportPaths[i]
ExportRecords(i) ==
  CASE i = 1 -> FilterRecords(ExportPaths[1])
                  \cup {extract_exif_data(ExportPaths[1], TaggedEnv)}
    [] i = 4 -> {_extract_image_exif(ExportPaths[4], DefaultEnv)}
    [] OTHER -> FilterRecords(ExportPaths[i])

\* the dict that holds choice[i] for ExportPaths[i], where that is a Record
ExportSet(choice) ==
  [p \in {ExportPaths[i] : i \in {j \in DOMAIN ExportPaths : choice[j] # NoEntry}} |->
     choice[CHOOSE i \in DOMAIN ExportPaths : ExportPaths[i] = p]]

\* the dicts handed to export_data: path -> Record
ExportSets ==
  { ExportSet(<<r1, r2, r3, r4>>) :
      r1 \in ExportRecords(1) \cup {NoEntry}, r2 \in ExportRecords(2) \cup {NoEntry},
      r3 \in ExportRecords(3) \cup {NoEntry}, r4 \in ExportRecords(4) \cup {NoEntry} }

\* the elements of S in the order of iteration (data.items(), a set)
RECURSIVE SeqOf(_)
SeqOf(S) ==
  IF S = {} THEN <<>>
  ELSE LET x == CHOOSE y \in S : TRUE IN <<x>> \o SeqOf(S \ {x})

\* the characters of a path and of a file name
PathText(p) == Chars(p.name) \o Chars(p.suffix)

\* no file at output_path
NoFile ==
  [kind |-> "none", header |-> <<>>, rows |-> <<>>, members |-> <<>>, total |-> 0]

\* what a call of export_data ends in, and the file it leaves
Outcome(ret, file) == [ret |-> ret, file |-> file]

\* the body of a JSON string as json.dump(ensure_ascii=False) writes it:
\* the double quote, the backslash, the newline and the tab are escaped
RECURSIVE JsonEscape(_)
JsonEscape(t) ==
  IF t = <<>> THEN <<>>
  ELSE (CASE Head(t) = 34 -> <<92, 34>>
          [] Head(t) = 92 -> <<92, 92>>
          [] Head(t) = 10 -> <<92, 110>>
          [] Head(t) = 9 -> <<92, 116>>
          [] OTHER -> <<Head(t)>>) \o JsonEscape(Tail(t))

\* the characters are written between the quotes as they are
JsonString_raw(t) == <<34>> \o t \o <<34>>

\* a str as json.dump writes it
JsonString(t) == <<34>> \o JsonEscape(t) \o <<34>>

\* _clean_for_json, lines 163-172: dicts are rebuilt key by key; the leaves
\* of a Record are strings and numbers, which are kept
_clean_for_json(data) ==
  [p \in DOMAIN data |-> [k \in DOMAIN data[p] |-> data[p][k]]]

\* one member of the top-level JSON object: the key, the keys of its value
\* and the file_info "File Name" string, each as written
JsonMember(p, r) ==
  [key |-> JsonString(PathText(p)),
   fields |-> DOMAIN r,
   name |-> IF "file_info" \in DOMAIN r
            THEN JsonString(Chars(r["file_info"]["File Name"][1])
                              \o Chars(r["file_info"]["File Name"][2]))
            ELSE <<>>]

\* lines 37-48
_export_json(data, can_open) ==
  LET clean_data == _clean_for_json(data)
      keys == SeqOf(DOMAIN clean_data)
  IN  IF ~can_open THEN Outcome("false", NoFile)
      ELSE Outcome("true",
                   [NoFile EXCEPT
                      !.kind = "json",
                      !.total = Len(keys),
                      !.members = [i \in DOMAIN keys |->
                                     JsonMember(keys[i], clean_data[keys[i]])]])

\* the columns a sub-mapping of a Record gives, lines 61-83
Flat(prefix, metadata, sub) ==
  IF sub \notin DOMAIN metadata THEN <<>>
  ELSE [c \in {Chars(prefix) \o Chars(k) : k \in DOMAIN metadata[sub]} |->
          LET k == CHOOSE j \in DOMAIN metadata[sub] : Chars(prefix) \o Chars(j) = c
          IN  IF k \in {"DecimalLatitude", "DecimalLongitude"}
              THEN <<"float", metadata[sub][k]>>
              ELSE metadata[sub][k]]

\* lines 58-83: the row of one Record
Row(file_path, metadata) ==
  Update(Update(Update(Update(Update(
    [c \in {Chars("File Path")} |-> <<file_path.name, file_path.suffix>>],
    Flat("File_", metadata, "file_info")),
    Flat("EXIF_", metadata, "exif_data")),
    Flat("GPS_", metadata, "gps_data")),
    Flat("Camera_", metadata, "camera_info")),
    Flat("Image_", metadata, "image_info"))

\* error Records get a row like the others
Flattened_all(data) == DOMAIN data

\* line 57: the Records that get a row
Flattened(data) == {p \in DOMAIN data : "error" \notin DOMAIN data[p]}

\* csv.DictWriter.writerows: a cell per column, empty where the row has none
Written(row, fieldnames) ==
  [c \in fieldnames |-> IF c \in DOMAIN row THEN row[c] ELSE <<"str", "">>]

\* lines 50-102
_export_csv(data, can_open) ==
  LET paths == SeqOf(Flattened(data))
      flattened_data == [i \in DOMAIN paths |-> Row(paths[i], data[paths[i]])]
      fieldnames == UNION {DOMAIN flattened_data[i] : i \in DOMAIN flattened_data}
  IN  IF flattened_data = <<>> THEN Outcome("false", NoFile)
      ELSE IF ~can_open THEN Outcome("false", NoFile)
      ELSE Outcome("true",
                   [NoFile EXCEPT
                      !.kind = "csv",
                      !.total = Len(paths),
                      !.header = sorted(SeqOf(fieldnames)),
                      !.rows = [i \in DOMAIN paths |->
                                  Written(flattened_data[i], fieldnames)]])

\* lines 104-161: the header with "Total Files", then a section per entry
_export_txt(data, can_open) ==
  LET keys == SeqOf(DOMAIN data)
  IN  IF ~can_open THEN Outcome("false", NoFile)
      ELSE Outcome("true",
                   [NoFile EXCEPT
                      !.kind = "txt",
                      !.total = Len(keys),
                      !.members = [i \in DOMAIN keys |->
                                     [key |-> PathText(keys[i]),
                                      fields |-> IF "error" \in DOMAIN data[keys[i]]
                                                 THEN {"error"}
                                                 ELSE DOMAIN data[keys[i]]
                                                        \ {"video_info", "streams"},
                                      name |-> <<>>]]])

\* the token is compared as it was passed
export_data_as_passed(data, format_type, can_open) ==
  IF format_type \notin supported_formats THEN Outcome("raised", NoFile)
  ELSE CASE format_type = "json" -> _export_json(data, can_open)
         [] format_type = "csv" -> _export_csv(data, can_open)
         [] OTHER -> _export_txt(data, can_open)

\* lines 17-35; can_open: open(output_path, 'w') succeeds
export_data(data, format_type, can_open) ==
  IF Lower(format_type) \notin supported_formats THEN Outcome("raised", NoFile)
  ELSE CASE Lower(format_type) = "json" -> _export_json(data, can_open)
         [] Lower(format_type) = "csv" -> _export_csv(data, can_open)
         [] OTHER -> _export_txt(data, can_open)

\* a JSON string as json.load reads it: the characters after the opening
\* quote up to the first quote that is not escaped
RECURSIVE JsonBody(_)
JsonBody(t) ==
  IF t = <<>> \/ Head(t) = 34 THEN <<>>
  ELSE IF Head(t) = 92 /\ Len(t) >= 2
       THEN (CASE t[2] = 110 -> <<10>>
               [] t[2] = 116 -> <<9>>
               [] OTHER -> <<t[2]>>) \o JsonBody(Tail(Tail(t)))
       ELSE <<Head(t)>> \o JsonBody(Tail(t))

\* the length of the string token that starts t
RECURSIVE JsonTokenLen(_)
JsonTokenLen(t) ==
  IF t = <<>> THEN 0
  ELSE IF Head(t) = 34 THEN 1
  ELSE IF Head(t) = 92 /\ Len(t) >= 2 THEN 2 + JsonTokenLen(Tail(Tail(t)))
  ELSE 1 + JsonTokenLen(Tail(t))

\* t is one JSON string and nothing more
JsonValid(t) ==
  /\ Len(t) >= 2
  /\ Head(t) = 34
  /\ t[Len(t)] = 34
  /\ JsonTokenLen(Tail(t)) = Len(t) - 1

\* json.load of the test, lines 160-163: the mapping key -> value, the last
\* member winning under a key; "invalid" when json.load raises
json_load(file) ==
  IF \E i \in DOMAIN file.members :
       \/ ~JsonValid(file.members[i].key)
       \/ file.members[i].name # <<>> /\ ~JsonValid(file.members[i].name)
  THEN [valid |-> FALSE, doc |-> <<>>]
  ELSE [valid |-> TRUE,
        doc |-> [k \in {JsonBody(Tail(file.members[i].key)) : i \in DOMAIN file.members} |->
                   LET i == CHOOSE j \in DOMAIN file.members :
                              /\ JsonBody(Tail(file.members[j].key)) = k
                              /\ \A l \in DOMAIN file.members :
                                   JsonBody(Tail(file.members[l].key)) = k => l <= j
                   IN  [fields |-> file.members[i].fields,
                        name |-> IF file.members[i].name = <<>> THEN <<>>
                                 ELSE JsonBody(Tail(file.members[i].name))]]]

\* ---------------------------------------------------------- FileProcessor
VARIABLES
  pc,                \* where the caller of process_files stands
  file_paths,        \* the argument file_paths
  progress_callback, \* TRUE when a progress callback was passed
  supported_files,   \* line 27
  future,            \* per submitted task: "queued", "running" or "done"
  outcome,           \* per task: what its future holds once done
  yielded,           \* the tasks as_completed has handed to the loop
  cur,               \* the task the loop body is handling (0: none)
  results,           \* the dict being built: path -> Record
  completed,         \* line 36
  calls,             \* the progress callback's invocations, in order
  extracted,         \* per task: calls of extract_exif_data made for it
  writes,            \* per path: how often results[path] was assigned
  max_workers,       \* self.max_workers
  active,            \* the callback invocations entered and not yet returned
  call_path,         \* last direct call of extract_exif_data: its argument,
  call_env,          \*   what the environment answered,
  call_result,       \*   and what it returned
  filter_results,    \* last call of filter_geotagged_files: results as passed,
  results_after,     \*   results when the call returns,
  geotagged,         \*   and the dict it returned
  fs,                \* last call of scan_directory: the files on the disk,
  directory_path,    \*   its argument directory_path,
  recursive,         \*   its argument recursive,
  files,             \*   and the list it returned
  checked_path,      \* last call of is_supported_file: its argument
  supported,         \*   and what it returned
  exported_data,     \* last call of export_data: its argument data,
  exported_format,   \*   its argument format_type,
  output_writable,   \*   whether open(output_path, 'w') succeeds,
  success,           \*   how the call ended: "true", "false" or "raised",
  output_file        \*   and the file at output_path after the call

vars ==
  <<pc, file_paths, progress_callback, supported_files, future, outcome, yielded,
    cur, results, completed, calls, extracted, writes, max_workers, active,
    call_path, call_env, call_result, filter_results, results_after, geotagged,
    fs, directory_path, recursive, files, checked_path, supported,
    exported_data, exported_format, output_writable, success, output_file>>

\* the variables of a process_files call
batch_vars ==
  <<pc, file_paths, progress_callback, supported_files, future, outcome, yielded,
    cur, results, completed, calls, extracted, writes, max_workers, active>>

extract_vars == <<call_path, call_env, call_result>>

filter_vars == <<filter_results, results_after, geotagged>>

scan_vars == <<fs, directory_path, recursive, files>>

support_vars == <<checked_path, supported>>

export_vars ==
  <<exported_data, exported_format, output_writable, success, output_file>>

\* the variables of the other calls
call_vars == <<extract_vars, filter_vars, scan_vars, support_vars, export_vars>>

\* self.max_workers as __init__ sets it
DefaultMaxWorkers == 4

\* the pool sizes a caller configures
PoolSizes == {1, 2, DefaultMaxWorkers}

\* the paths process_files is handed in the model
BatchPaths ==
  { Path("a", ".jpg"), Path("gone", ".jpg"), Path("notes", ".txt"),
    Path("gone", ".txt") }

\* w.get(p, 0) on the write counts
Count(w, p) == IF p \in DOMAIN w THEN w[p] ELSE 0

\* the answers the environment gives to the extractions of a batch
BatchEnvs(p) ==
  IF Ext(p) \in supported_image_formats
  THEN { DefaultEnv, [DefaultEnv EXCEPT !.secondary_raises = TRUE] }
  ELSE {DefaultEnv}

InputLists == UNION { [1..n -> BatchPaths] : n \in 0..MaxPaths }

\* the filter also drops the files that do not exist
RECURSIVE Supported_existing(_)
Supported_existing(paths) ==
  IF paths = <<>> THEN <<>>
  ELSE IF is_supported_file(Head(paths)) /\ Exists(Head(paths))
       THEN <<Head(paths)>> \o Supported_existing(Tail(paths))
       ELSE Supported_existing(Tail(paths))

\* the filter left out: every path is submitted
Supported_unfiltered(paths) == paths

\* [f for f in file_paths if self.extractor.is_supported_file(f)]
RECURSIVE Supported(_)
Supported(paths) ==
  IF paths = <<>> THEN <<>>
  ELSE IF is_supported_file(Head(paths))
       THEN <<Head(paths)>> \o Supported(Tail(paths))
       ELSE Supported(Tail(paths))

Pending == [kind |-> "pending", value |-> EmptyDict, cause |-> ""]

\* what the future of extract_exif_data(p) holds: its return value, or the
\* exception raised outside its try block (lines 30-33)
RunTask(p, env, escapes) ==
  IF escapes THEN [kind |-> "raised", value |-> EmptyDict, cause |-> env.cause]
  ELSE [kind |-> "returned", value |-> extract_exif_data(p, env), cause |-> ""]

N == Len(supported_files)

Running == {i \in DOMAIN future : future[i] = "running"}

Init ==
  /\ pc = "idle"
  /\ file_paths = <<>>
  /\ progress_callback = FALSE
  /\ supported_files = <<>>
  /\ future = <<>>
  /\ outcome = <<>>
  /\ yielded = {}
  /\ cur = 0
  /\ results = <<>>
  /\ completed = 0
  /\ calls = <<>>
  /\ extracted = <<>>
  /\ writes = <<>>
  /\ max_workers = DefaultMaxWorkers
  /\ active = {}
  /\ call_path = Path("", "")
  /\ call_env = DefaultEnv
  /\ call_result = EmptyDict
  /\ filter_results = <<>>
  /\ results_after = <<>>
  /\ geotagged = <<>>
  /\ fs = {}
  /\ directory_path = Entry(<<>>, "", "", "dir")
  /\ recursive = TRUE
  /\ files = <<>>
  /\ checked_path = Path("", "")
  /\ supported = FALSE
  /\ exported_data = <<>>
  /\ exported_format = ""
  /\ output_writable = TRUE
  /\ success = "none"
  /\ output_file = NoFile

\* self.max_workers is a public attribute ("Configurable thread pool size")
Configure(n) ==
  /\ pc = "idle"
  /\ max_workers' = n
  /\ UNCHANGED <<pc, file_paths, progress_callback, supported_files, future,
                 outcome, yielded, cur, results, completed, calls, extracted, writes,
                 active>>
  /\ UNCHANGED call_vars

\* lines 17-27: the call, the early return on an empty list, the filter
process_files(paths, cb) ==
  /\ pc = "idle"
  /\ file_paths' = paths
  /\ progress_callback' = cb
  /\ results' = <<>>
  /\ IF Len(paths) = 0
     THEN pc' = "returned" /\ supported_files' = <<>>
     ELSE pc' = "submit" /\ supported_files' = Supported(paths)
  /\ UNCHANGED <<future, outcome, yielded, cur, completed, calls, extracted, writes,
                 max_workers, active>>
  /\ UNCHANGED call_vars

\* lines 31-34: executor.submit for the next file of supported_files
Submit ==
  /\ pc = "submit"
  /\ Len(future) < N
  /\ future' = Append(future, "queued")
  /\ outcome' = Append(outcome, Pending)
  /\ extracted' = Append(extracted, 0)
  /\ UNCHANGED <<pc, file_paths, progress_callback, supported_files, yielded, cur,
                 results, completed, calls, writes, max_workers, active>>
  /\ UNCHANGED call_vars

\* line 36, and the start of as_completed
EnterLoop ==
  /\ pc = "submit"
  /\ Len(future) = N
  /\ completed' = 0
  /\ pc' = "wait"
  /\ UNCHANGED <<file_paths, progress_callback, supported_files, future, outcome,
                 yielded, cur, results, calls, extracted, writes, max_workers, active>>
  /\ UNCHANGED call_vars

\* a pool that starts a thread for every queued task
CanStart_unbounded(i) ==
  /\ future[i] = "queued"
  /\ \A j \in 1..(i - 1) : future[j] # "queued"

\* a worker of the pool takes the oldest queued task; the pool has at most
\* max_workers workers, each running one task at a time
CanStart(i) ==
  /\ future[i] = "queued"
  /\ \A j \in 1..(i - 1) : future[j] # "queued"
  /\ Cardinality(Running) < max_workers

StartTask(i) ==
  /\ CanStart(i)
  /\ future' = [future EXCEPT ![i] = "running"]
  /\ extracted' = [extracted EXCEPT ![i] = @ + 1]
  /\ UNCHANGED <<pc, file_paths, progress_callback, supported_files, outcome,
                 yielded, cur, results, completed, calls, writes, max_workers, active>>
  /\ UNCHANGED call_vars

\* the task's call of extract_exif_data ends
CanFinish(i) == future[i] = "running"

\* a call that ended in an error Record or an exception is queued again
AfterCall_retry(o) ==
  IF o.kind = "raised" \/ "error" \in DOMAIN o.value THEN "queued" ELSE "done"

\* the future of a call that has ended is done, whatever the call produced
AfterCall(o) == "done"

FinishTask(i) ==
  /\ CanFinish(i)
  /\ \E env \in BatchEnvs(supported_files[i]), escapes \in BOOLEAN :
       /\ outcome' = [outcome EXCEPT ![i] = RunTask(supported_files[i], env, escapes)]
       /\ future' = [future EXCEPT ![i] =
                       AfterCall(RunTask(supported_files[i], env, escapes))]
  /\ UNCHANGED <<pc, file_paths, progress_callback, supported_files, yielded, cur,
                 results, completed, calls, extracted, writes, max_workers, active>>
  /\ UNCHANGED call_vars

\* no except clause: what future.result() raises leaves process_files
Caught_nothing(o) == FALSE

\* `except Exception` (line 42) catches what future.result() raises
Caught(o) == o.kind = "raised"

\* lines 39-43: the Record stored for a finished future
Stored(o) ==
  IF o.kind = "returned" THEN o.value
  ELSE ErrorRecord(Msg("Exception occurred: ", o.cause))

\* a finished future is handed to the loop again
CanCollect_again(i) == future[i] = "done"

\* as_completed yields every future once, after it is done
CanCollect(i) == future[i] = "done" /\ i \notin yielded

\* the callback is handed to a thread of its own and the loop goes on
AtLoopTop_detached == pc \in {"wait", "callback"}

\* the calling thread is at the for statement of line 37, asking as_completed
\* for the next finished future
AtLoopTop == pc = "wait"

\* lines 37-43: as_completed yields a finished future; its result is stored
Collect(i) ==
  /\ AtLoopTop
  /\ i \in DOMAIN future
  /\ CanCollect(i)
  /\ yielded' = yielded \cup {i}
  /\ IF outcome[i].kind = "returned" \/ Caught(outcome[i])
     THEN /\ results' = Put(results, supported_files[i], Stored(outcome[i]))
          /\ writes' = Put(writes, supported_files[i],
                           Count(writes, supported_files[i]) + 1)
          /\ cur' = i
          /\ pc' = "report"
     ELSE /\ pc' = "raised"
          /\ UNCHANGED <<results, writes, cur>>
  /\ UNCHANGED <<file_paths, progress_callback, supported_files, future, outcome,
                 completed, calls, extracted, max_workers, active>>
  /\ UNCHANGED call_vars

\* the total taken from the unfiltered list (total_files of line 21)
ProgressTotal_unfiltered == Len(file_paths)

\* len(supported_files), the total handed to the callback (line 47)
ProgressTotal == Len(supported_files)

\* the callback is handed the number of futures that are done
Reported_done == Cardinality({i \in DOMAIN future : future[i] = "done"})

\* completed as line 47 reads it, after the increment of line 45
Reported == completed + 1

\* lines 45-47: the calling thread counts the future and, when a callback was
\* passed, enters it with (completed, len(supported_files))
Report ==
  /\ pc = "report"
  /\ completed' = completed + 1
  /\ cur' = 0
  /\ IF progress_callback
     THEN /\ calls' = Append(calls, <<Reported, ProgressTotal>>)
          /\ active' = active \cup {completed + 1}
          /\ pc' = "callback"
     ELSE /\ pc' = "wait"
          /\ UNCHANGED <<calls, active>>
  /\ UNCHANGED <<file_paths, progress_callback, supported_files, future, outcome,
                 yielded, results, extracted, writes, max_workers>>
  /\ UNCHANGED call_vars

\* line 47: the callback returns to the loop
CallbackReturn ==
  /\ pc = "callback"
  /\ \E k \in active : active' = active \ {k}
  /\ pc' = "wait"
  /\ UNCHANGED <<file_paths, progress_callback, supported_files, future, outcome,
                 yielded, cur, results, completed, calls, extracted, writes,
                 max_workers>>
  /\ UNCHANGED call_vars

\* an iteration that ends as soon as no finished future is waiting
Exhausted_nowait == \A i \in DOMAIN future : future[i] = "done" => i \in yielded

\* as_completed blocks until a future is done and ends when it has yielded
\* every future it was given
Exhausted == yielded = DOMAIN future

\* lines 37 and 49: as_completed is exhausted, the pool is shut down, return
Return ==
  /\ AtLoopTop
  /\ Exhausted
  /\ pc' = "returned"
  /\ UNCHANGED <<file_paths, progress_callback, supported_files, future, outcome,
                 yielded, cur, results, completed, calls, extracted, writes, max_workers, active>>
  /\ UNCHANGED call_vars

\* a direct call of extract_exif_data (the tests and the demo make such calls):
\* the call returns what the operator computes
DirectExtract(p, env) ==
  /\ pc = "idle"
  /\ pc' = "extracted"
  /\ call_path' = p
  /\ call_env' = env
  /\ call_result' = extract_exif_data(p, env)
  /\ UNCHANGED <<file_paths, progress_callback, supported_files, future, outcome,
                 yielded, cur, results, completed, calls, extracted, writes,
                 max_workers, active>>
  /\ UNCHANGED <<filter_vars, scan_vars, support_vars, export_vars>>

\* a call of filter_geotagged_files on a dict of Records: the loop of lines
\* 87-91 reads results and assigns into geotagged only
FilterGeotagged(rs) ==
  /\ pc = "idle"
  /\ pc' = "filtered"
  /\ filter_results' = rs
  /\ geotagged' = filter_geotagged_files(rs)
  /\ results_after' = rs
  /\ UNCHANGED <<file_paths, progress_callback, supported_files, future, outcome,
                 yielded, cur, results, completed, calls, extracted, writes,
                 max_workers, active>>
  /\ UNCHANGED <<extract_vars, scan_vars, support_vars, export_vars>>

\* a call of scan_directory on a disk holding the entries of disk; glob hands
\* the entries over in an order of its own
ScanDirectory(disk, dir, rec) ==
  /\ pc = "idle"
  /\ pc' = "scanned"
  /\ fs' = disk
  /\ directory_path' = dir
  /\ recursive' = rec
  /\ \E order \in Orders(Found(disk, dir, rec)) :
       files' = scan_directory(disk, dir, rec, order)
  /\ UNCHANGED <<file_paths, progress_callback, supported_files, future, outcome,
                 yielded, cur, results, completed, calls, extracted, writes,
                 max_workers, active>>
  /\ UNCHANGED <<extract_vars, filter_vars, support_vars, export_vars>>

\* a call of is_supported_file (the test of lines 40-54 makes such calls)
SupportCheck(p) ==
  /\ pc = "idle"
  /\ pc' = "checked"
  /\ checked_path' = p
  /\ supported' = is_supported_file(p)
  /\ UNCHANGED <<file_paths, progress_callback, supported_files, future, outcome,
                 yielded, cur, results, completed, calls, extracted, writes,
                 max_workers, active>>
  /\ UNCHANGED <<extract_vars, filter_vars, scan_vars, export_vars>>

\* a call of export_data (the tests of lines 152-173 make such calls); there
\* is no file at output_path before the call
ExportData(d, token, can_open) ==
  /\ pc = "idle"
  /\ pc' = IF export_data(d, token, can_open).ret = "raised" THEN "export raised"
            ELSE "exported"
  /\ exported_data' = d
  /\ exported_format' = token
  /\ output_writable' = can_open
  /\ success' = export_data(d, token, can_open).ret
  /\ output_file' = export_data(d, token, can_open).file
  /\ UNCHANGED <<file_paths, progress_callback, supported_files, future, outcome,
                 yielded, cur, results, completed, calls, extracted, writes,
                 max_workers, active>>
  /\ UNCHANGED <<extract_vars, filter_vars, scan_vars, support_vars>>

Next ==
  \/ pc = "idle" /\ \E n \in PoolSizes : Configure(n)
  \/ pc = "idle" /\ \E p \in AllPaths : \E env \in EnvsFor(p) : DirectExtract(p, env)
  \/ pc = "idle" /\ \E paths \in InputLists, cb \in BOOLEAN : process_files(paths, cb)
  \/ pc = "idle" /\ \E rs \in ResultSets : FilterGeotagged(rs)
  \/ pc = "idle" /\ \E p \in SupportPaths : SupportCheck(p)
  \/ pc = "idle" /\ \E d \in ExportSets, token \in ExportFormats, can_open \in BOOLEAN :
                       ExportData(d, token, can_open)
  \/ pc = "idle" /\ \E disk \in Disks, dir \in ScanArguments, rec \in BOOLEAN :
                       ScanDirectory(disk, dir, rec)
  \/ Submit
  \/ EnterLoop
  \/ \E i \in DOMAIN future : StartTask(i)
  \/ \E i \in DOMAIN future : FinishTask(i)
  \/ \E i \in DOMAIN future : Collect(i)
  \/ Report
  \/ CallbackReturn
  \/ Return

Spec == Init /\ [][Next]_vars

\* the steps of the thread that called process_files
CallingThread ==
  \/ Submit
  \/ EnterLoop
  \/ \E i \in DOMAIN future : Collect(i)
  \/ Report
  \/ CallbackReturn
  \/ Return

\* the steps of the pool's workers
Workers ==
  \/ \E i \in DOMAIN future : StartTask(i)
  \/ \E i \in DOMAIN future : FinishTask(i)

\* the scheduling of a call of process_files: the calling thread runs on
\* while it has a step to take (the caller's callback returns), and the pool
\* starts a queued task when a worker is free and every started call of
\* extract_exif_data ends
Fairness == WF_vars(CallingThread) /\ WF_vars(Workers)

FairSpec == Spec /\ Fairness

\* ================================================================= claims
\* the supported entries of the argument, in order
SupportedEntries == SelectSeq(file_paths, is_supported_file)

NSupported == Len(SupportedEntries)

\* the paths of a sequence
Range(seq) == {seq[i] : i \in DOMAIN seq}

\* how often p occurs in seq
Occurrences(seq, p) == Cardinality({i \in DOMAIN seq : seq[i] = p})

Distinct(seq) == \A i, j \in DOMAIN seq : seq[i] = seq[j] => i = j

\* the tasks of path p
TasksOf(p) == {i \in DOMAIN future : supported_files[i] = p}

FileNotFound == ErrorRecord(Msg("File not found", ""))

\* C1: a call with a callback over N supported entries invokes it exactly N
\* times, the i-th time with (i, N), and never more than N times.
C1_ProgressExactlyN ==
  /\ Len(calls) <= NSupported
  /\ \A i \in DOMAIN calls : calls[i] = <<i, NSupported>>
  /\ (pc = "returned" /\ progress_callback) => Len(calls) = NSupported
  /\ ~progress_callback => calls = <<>>

\* a call with a callback has returned after two supported entries and an
\* unsupported one
C1_Witness ==
  /\ pc = "returned"
  /\ progress_callback
  /\ NSupported = 2
  /\ Len(file_paths) > NSupported
  /\ calls = <<<<1, 2>>, <<2, 2>>>>

\* C2 as stated: the returned map has exactly N keys for N supported entries.
C2_Original ==
  pc = "returned" => Cardinality(DOMAIN results) = NSupported

\* C2 amended: the keys of the returned map are exactly the supported paths of
\* the input, so there are as many keys as distinct supported paths: N of
\* them when the N supported entries are pairwise distinct.
C2_KeysAreSupportedPaths ==
  pc = "returned" =>
    /\ DOMAIN results = Range(SupportedEntries)
    /\ Distinct(SupportedEntries) => Cardinality(DOMAIN results) = NSupported

\* two distinct supported paths and an unsupported one: two keys
C2_Witness ==
  /\ pc = "returned"
  /\ Len(file_paths) = 3
  /\ NSupported = 2
  /\ Distinct(SupportedEntries)
  /\ Cardinality(DOMAIN results) = 2

\* C3: a task whose exception escapes extract_exif_data gets the Record
\* {"error": "Exception occurred: <cause>"}; the call goes on: every other
\* task still gets its Record stored and its progress step.
C3_FailingTaskIsolated ==
  /\ pc # "raised"
  /\ (pc = "report" /\ outcome[cur].kind = "raised") =>
        results[supported_files[cur]] =
          ErrorRecord(Msg("Exception occurred: ", outcome[cur].cause))
  /\ (pc = "report" /\ outcome[cur].kind = "returned") =>
        results[supported_files[cur]] = outcome[cur].value
  /\ pc = "returned" =>
        /\ completed = NSupported
        /\ yielded = 1..NSupported
        /\ \A i \in 1..NSupported :
             /\ SupportedEntries[i] \in DOMAIN results
             /\ outcome[i].kind \in {"returned", "raised"}
             /\ TasksOf(supported_files[i]) = {i} =>
                  results[supported_files[i]] =
                    IF outcome[i].kind = "raised"
                    THEN ErrorRecord(Msg("Exception occurred: ", outcome[i].cause))
                    ELSE outcome[i].value

\* one task raised, another returned a Record without error, both are stored
C3_Witness ==
  /\ pc = "returned"
  /\ \E i, j \in DOMAIN future :
       /\ outcome[i].kind = "raised"
       /\ outcome[j].kind = "returned"
       /\ supported_files[i] # supported_files[j]
       /\ results[supported_files[i]] =
            ErrorRecord(Msg("Exception occurred: ", outcome[i].cause))
       /\ "error" \notin DOMAIN results[supported_files[j]]
       /\ "file_info" \in DOMAIN results[supported_files[j]]

\* the Record process_files is to store for task i
RecordOf(i) ==
  IF outcome[i].kind = "raised"
  THEN ErrorRecord(Msg("Exception occurred: ", outcome[i].cause))
  ELSE outcome[i].value

NoTaskRaised == \A i \in DOMAIN outcome : outcome[i].kind # "raised"

\* C4 as stated (no task raising): every path of the list that does not exist
\* is in the returned map with error = "File not found".
C4_Original ==
  (pc = "returned" /\ NoTaskRaised) =>
    \A p \in Range(file_paths) :
      ~Exists(p) => p \in DOMAIN results /\ results[p] = FileNotFound

\* C4 amended: a path with a supported extension that does not exist is in the
\* returned map with error = "File not found" (when its task returned), and
\* the Record of every path is the one its own extraction produced.
C4_MissingSupportedRecorded ==
  pc = "returned" =>
    /\ \A p \in Range(file_paths) :
         (~Exists(p) /\ is_supported_file(p)) =>
           /\ p \in DOMAIN results
           /\ (\A i \in TasksOf(p) : outcome[i].kind = "returned") =>
                results[p] = FileNotFound
    /\ \A q \in DOMAIN results : \E i \in TasksOf(q) : results[q] = RecordOf(i)

\* a missing and an existing image in one list: the first is recorded as not
\* found, the second has its field set
C4_Witness ==
  /\ pc = "returned"
  /\ file_paths = <<Path("gone", ".jpg"), Path("a", ".jpg")>>
  /\ results[Path("gone", ".jpg")] = FileNotFound
  /\ "error" \notin DOMAIN results[Path("a", ".jpg")]

\* C5: a direct call on a path that does not exist returns {"error": "File
\* not found"} and nothing else, whatever the extension.
C5_MissingFileRecord ==
  (pc = "extracted" /\ ~Exists(call_path)) => call_result = FileNotFound

\* a missing path with an unsupported extension
C5_Witness ==
  /\ pc = "extracted"
  /\ call_path = Path("gone", ".txt")
  /\ call_result = FileNotFound

\* every field of r other than error is absent or empty
OnlyError(r) ==
  /\ "error" \in DOMAIN r
  /\ \A k \in DOMAIN r \ {"error"} : DOMAIN r[k] = {}

Successful(r) == "error" \notin DOMAIN r /\ "file_info" \in DOMAIN r

\* C6 as stated: the Record has either error and nothing else, or no error and
\* file_info.
C6_Original ==
  pc = "extracted" => (OnlyError(call_result) \/ Successful(call_result))

TopLevelErrors ==
  {"File not found", "Unsupported file format", "Failed to extract EXIF data: "}

HandlerErrors ==
  {"Error reading image EXIF: ", "Error reading video metadata: ",
   "Error reading audio metadata: ",
   "Install mutagen library for full audio metadata support"}

\* C6 amended: the Record has error or file_info, never neither; an error set
\* by extract_exif_data itself is the only field; an error recorded by the
\* image, video or audio handler is stored next to file_info.
C6_ErrorOrFields ==
  pc = "extracted" =>
    LET r == call_result IN
    /\ "error" \in DOMAIN r \/ "file_info" \in DOMAIN r
    /\ "error" \in DOMAIN r =>
         /\ r["error"][1] \in TopLevelErrors \cup HandlerErrors
         /\ r["error"][1] \in TopLevelErrors => DOMAIN r = {"error"}
         /\ r["error"][1] \in HandlerErrors => "file_info" \in DOMAIN r

\* an image whose secondary source raised: error next to the classified tags
C6_Witness ==
  /\ pc = "extracted"
  /\ "error" \in DOMAIN call_result
  /\ "file_info" \in DOMAIN call_result
  /\ "camera_info" \in DOMAIN call_result
  /\ DOMAIN call_result["camera_info"] # {}

\* the video probe did not deliver: binary absent, timeout, non-zero exit
ProbeSoftFailure(p, env) ==
  /\ Exists(p) /\ Ext(p) \in supported_video_formats /\ env.stat_ok
  /\ env.probe \in {"absent", "timeout", "nonzero"}

\* a source or the file system failed during the extraction of p
SourceFailure(p, env) ==
  /\ Exists(p)
  /\ \/ is_supported_file(p) /\ ~env.stat_ok
     \/ Ext(p) \in supported_image_formats
          /\ (env.primary_raises \/ env.secondary_raises)
     \/ Ext(p) \in supported_video_formats /\ env.probe # "ok"
     \/ Ext(p) = ".mp3" /\ env.mutagen # "ok"

\* C7 as stated: neither operation raises, and every failure of a source, of
\* the file system or of a task is in the error field of the file's Record.
C7_Original ==
  /\ pc # "raised"
  /\ (pc = "extracted" /\ SourceFailure(call_path, call_env)) =>
       "error" \in DOMAIN call_result
  /\ (pc = "report" /\ outcome[cur].kind = "raised") =>
       "error" \in DOMAIN results[supported_files[cur]]

\* C7 amended: neither operation raises; every such failure is in the error
\* field, except a video probe that is absent, times out or exits non-zero,
\* which leaves the Record without error.
C7_NothingPropagates ==
  /\ pc # "raised"
  /\ pc \in {"returned", "extracted", "filtered", "scanned", "checked", "exported",
             "export raised"} \/ ENABLED Next
  /\ (pc = "extracted" /\ SourceFailure(call_path, call_env)) =>
       ("error" \in DOMAIN call_result <=> ~ProbeSoftFailure(call_path, call_env))
  /\ (pc = "report" /\ outcome[cur].kind = "raised") =>
       "error" \in DOMAIN results[supported_files[cur]]
  /\ pc = "returned" => yielded = DOMAIN future /\ Len(future) = NSupported

\* a batch has returned although a task raised and another met a failing source
C7_Witness ==
  /\ pc = "returned"
  /\ \E i, j \in DOMAIN future :
       /\ outcome[i].kind = "raised"
       /\ outcome[j].kind = "returned"
       /\ "error" \in DOMAIN outcome[j].value
       /\ "file_info" \in DOMAIN outcome[j].value

SupportedExts ==
  {".jpg", ".jpeg", ".tiff", ".tif", ".png", ".bmp", ".gif", ".mp4", ".avi", ".mov",
   ".mkv", ".wmv", ".mp3", ".wav", ".flac", ".m4a"}

\* C8: a path the extension check rejects gets no key, no Record, no task,
\* and is not counted in the callback's total; a list without a supported
\* path gives an empty map and no callback.
C8_UnsupportedDropped ==
  /\ \A p \in DOMAIN results : Ext(p) \in SupportedExts
  /\ \A i \in DOMAIN future : Ext(supported_files[i]) \in SupportedExts
  /\ Len(future) <= Cardinality({i \in DOMAIN file_paths :
                                   Ext(file_paths[i]) \in SupportedExts})
  /\ \A k \in DOMAIN calls :
       calls[k][2] = Cardinality({i \in DOMAIN file_paths :
                                    Ext(file_paths[i]) \in SupportedExts})
  /\ (\A i \in DOMAIN file_paths : Ext(file_paths[i]) \notin SupportedExts) =>
       /\ results = <<>>
       /\ calls = <<>>
       /\ future = <<>>

\* an existing text file between two images: two keys, a total of two
C8_Witness ==
  /\ pc = "returned"
  /\ progress_callback
  /\ file_paths = <<Path("a", ".jpg"), Path("notes", ".txt"), Path("gone", ".jpg")>>
  /\ DOMAIN results = {Path("a", ".jpg"), Path("gone", ".jpg")}
  /\ calls = <<<<1, 2>>, <<2, 2>>>>

\* C9: at most max_workers extractions run at once, and a running extraction
\* can end whatever the state of the other tasks.
C9_BoundedPool ==
  /\ Cardinality(Running) <= max_workers
  /\ \A i \in Running : ENABLED FinishTask(i)

\* the pool is full while a task waits in the queue
C9_Witness ==
  /\ Cardinality(Running) = max_workers
  /\ \E i \in DOMAIN future : future[i] = "queued"

\* C10 as stated: every path is submitted once and its key written once.
C10_Original ==
  \A p \in Range(supported_files) :
    Cardinality(TasksOf(p)) <= 1 /\ Count(writes, p) <= 1

\* what C10 amended says of a state
C10_Inv ==
  /\ \A i \in DOMAIN future : extracted[i] <= 1
  /\ Len(future) <= NSupported
  /\ \A i \in DOMAIN future : supported_files[i] = SupportedEntries[i]
  /\ \A p \in Range(supported_files) :
       /\ Count(writes, p) = Cardinality(TasksOf(p) \cap yielded)
       /\ Count(writes, p) <= Occurrences(SupportedEntries, p)
       /\ pc = "returned" => Count(writes, p) = Occurrences(SupportedEntries, p)
  /\ DOMAIN writes = DOMAIN results

\* C10 amended: every entry of the supported list is submitted once and
\* collected once, so a key is written once per occurrence of its path (once
\* when the paths are distinct); the only writer of the map is the calling
\* thread, in its loop.
C10_OncePerEntry ==
  /\ []C10_Inv
  /\ [][results' # results => (pc = "wait" /\ pc' = "report")]_vars

\* two distinct paths, each written once
C10_Witness ==
  /\ pc = "returned"
  /\ Distinct(SupportedEntries)
  /\ NSupported = 2
  /\ \A p \in Range(supported_files) : Count(writes, p) = 1

\* what C11 says of a state: at most one callback invocation is in progress,
\* it is the one the loop entered last, and the callback has been entered once
\* per counted future
C11_Inv ==
  /\ Cardinality(active) <= 1
  /\ active # {} => (pc = "callback" /\ active = {completed})
  /\ pc = "callback" => active = {completed}
  /\ progress_callback => Len(calls) = (IF pc = "idle" THEN 0 ELSE completed)

\* C11: the callback invocations of a call never overlap: one is entered only
\* when none is in progress, while extractions go on in the workers; and
\* completed changes only in the loop of the calling thread, by one, in a step
\* that is no worker's.
C11_SerializedCallback ==
  /\ []C11_Inv
  /\ [][active' # active => (active = {} \/ active' = {})]_vars
  /\ [][completed' # completed =>
          (pc = "report" /\ completed' = completed + 1 /\ future' = future
             /\ outcome' = outcome)]_vars

\* the first invocation is in progress while a second extraction has finished
\* on a worker and a third is still running
C11_Witness ==
  /\ pc = "callback"
  /\ active = {1}
  /\ \E i, j \in DOMAIN future :
       /\ future[i] = "done" /\ i \notin yielded
       /\ future[j] = "running"

\* a direct call has read the GPSInfo tag of an existing image
GpsRead ==
  /\ pc = "extracted"
  /\ Exists(call_path)
  /\ Ext(call_path) \in supported_image_formats
  /\ call_env.stat_ok
  /\ ~call_env.primary_raises
  /\ "GPSInfo" \in DOMAIN call_env.primary_tags

\* value has three components and all of them are numbers
NumericTriple(value) ==
  Len(value.comps) = 3 /\ \A i \in 1..3 : value.comps[i].num

\* d + m/60 + s/3600 of a numeric triple, in 1/3600 of a degree
Magnitude(value) ==
  value.comps[1].val * 3600 + value.comps[2].val * 60 + value.comps[3].val

\* C12: with a latitude triple at index 2 and a longitude triple at index 4,
\* three numbers each, the Record's gps_data has DecimalLatitude and
\* DecimalLongitude of magnitude d + m/60 + s/3600, the latitude negated
\* exactly when the ref at index 1 is 'S', the longitude exactly when the ref
\* at index 3 is 'W'; 's', 'w', 'N', 'E' and a missing ref leave them positive.
C12_DecimalCoordinates ==
  LET g == call_env.gps_info IN
  (GpsRead /\ {2, 4} \subseteq DOMAIN g /\ NumericTriple(g[2]) /\ NumericTriple(g[4])) =>
    LET d == call_result["gps_data"]
        south == 1 \in DOMAIN g /\ g[1] = Ref("S")
        west == 3 \in DOMAIN g /\ g[3] = Ref("W")
    IN  /\ {"DecimalLatitude", "DecimalLongitude"} \subseteq DOMAIN d
        /\ d["DecimalLatitude"] = (IF south THEN 0 - Magnitude(g[2]) ELSE Magnitude(g[2]))
        /\ d["DecimalLongitude"] = (IF west THEN 0 - Magnitude(g[4]) ELSE Magnitude(g[4]))
        /\ ~south => d["DecimalLatitude"] >= 0
        /\ ~west => d["DecimalLongitude"] >= 0

\* (40, 26, 46) with a lower-case 's' and (79, 56, 55) with 'W': 40.446111
\* stays positive, 79.948611 is negated
C12_Witness ==
  /\ GpsRead
  /\ DOMAIN call_env.gps_info = 1..4
  /\ call_env.gps_info[1] = Ref("s")
  /\ call_env.gps_info[3] = Ref("W")
  /\ "DecimalLatitude" \in DOMAIN call_result["gps_data"]
  /\ call_result["gps_data"]["DecimalLatitude"] = 145606
  /\ call_result["gps_data"]["DecimalLongitude"] = 0 - 287815

\* C13: with both entries present and one of them shorter or longer than three
\* elements, that axis is 0, the other axis is computed from its triple, both
\* decimal fields are in gps_data and the Record carries no error.
C13_MalformedTripleIsZero ==
  LET g == call_env.gps_info IN
  (GpsRead /\ {2, 4} \subseteq DOMAIN g) =>
    LET d == call_result["gps_data"]
        south == 1 \in DOMAIN g /\ g[1] = Ref("S")
        west == 3 \in DOMAIN g /\ g[3] = Ref("W")
    IN  /\ (Len(g[2].comps) # 3 /\ (NumericTriple(g[4]) \/ Len(g[4].comps) # 3)) =>
             /\ {"DecimalLatitude", "DecimalLongitude"} \subseteq DOMAIN d
             /\ d["DecimalLatitude"] = 0
             /\ Len(g[4].comps) = 3 =>
                  d["DecimalLongitude"] =
                    (IF west THEN 0 - Magnitude(g[4]) ELSE Magnitude(g[4]))
        /\ (Len(g[4].comps) # 3 /\ (NumericTriple(g[2]) \/ Len(g[2].comps) # 3)) =>
             /\ {"DecimalLatitude", "DecimalLongitude"} \subseteq DOMAIN d
             /\ d["DecimalLongitude"] = 0
             /\ Len(g[2].comps) = 3 =>
                  d["DecimalLatitude"] =
                    (IF south THEN 0 - Magnitude(g[2]) ELSE Magnitude(g[2]))
        /\ (Len(g[2].comps) # 3 \/ Len(g[4].comps) # 3) =>
             ("error" \in DOMAIN call_result <=> call_env.secondary_raises)

\* a latitude of two elements next to (79, 56, 55) 'W'
C13_Witness ==
  /\ GpsRead
  /\ {2, 4} \subseteq DOMAIN call_env.gps_info
  /\ Len(call_env.gps_info[2].comps) = 2
  /\ "DecimalLatitude" \in DOMAIN call_result["gps_data"]
  /\ call_result["gps_data"]["DecimalLatitude"] = 0
  /\ call_result["gps_data"]["DecimalLongitude"] = 0 - 287815
  /\ "error" \notin DOMAIN call_result

\* C14: whenever a Record has the decimal GPS fields, DecimalLatitude is in
\* [-90, 90] and DecimalLongitude in [-180, 180] (in 1/3600 of a degree).
C14_CoordinatesInRange ==
  (pc = "extracted" /\ "gps_data" \in DOMAIN call_result
     /\ "DecimalLatitude" \in DOMAIN call_result["gps_data"]) =>
    /\ call_result["gps_data"]["DecimalLatitude"] \in (0 - 90 * 3600)..(90 * 3600)
    /\ call_result["gps_data"]["DecimalLongitude"] \in (0 - 180 * 3600)..(180 * 3600)

\* a direct call has read an existing image (os.stat succeeded)
ImageRead ==
  /\ pc = "extracted"
  /\ Exists(call_path)
  /\ Ext(call_path) \in supported_image_formats
  /\ call_env.stat_ok

\* C15: in an image Record no key of exif_data names a tag that camera_info or
\* image_info claims (Make, Model, LensMake, LensModel, ImageWidth,
\* ImageLength, Orientation, ColorSpace), and none names a GPS tag.
C15_CategoriesDisjoint ==
  ImageRead =>
    \A k \in DOMAIN call_result["exif_data"] :
      /\ TagName(k) \notin CameraTags \cup ImageTags
      /\ ~GpsOrigin(k)

\* C16: when a source raises while an image is read, the Record has error =
\* "Error reading image EXIF: <cause>", file_info as it was read, and, when
\* the failing source is the secondary one, every tag of the primary source
\* in the field it was classified into, with its value.
C16_PartialResultKept ==
  (ImageRead /\ (call_env.primary_raises \/ call_env.secondary_raises)) =>
    LET r == call_result
        tags == call_env.primary_tags
    IN  /\ "error" \in DOMAIN r
        /\ r["error"] = <<"Error reading image EXIF: ", call_env.cause>>
        /\ {"file_info", "exif_data", "gps_data", "camera_info", "image_info"}
             \subseteq DOMAIN r
        /\ DOMAIN r["file_info"] =
             {"File Name", "File Path", "File Size", "Created", "Modified", "Extension"}
        /\ r["file_info"]["Extension"] = <<"str", Ext(call_path)>>
        /\ ~call_env.primary_raises =>
             /\ \A t \in DOMAIN tags \cap CameraTags :
                  t \in DOMAIN r["camera_info"]
                    /\ r["camera_info"][t] = <<"str", tags[t][2]>>
             /\ \A t \in DOMAIN tags \cap ImageTags :
                  t \in DOMAIN r["image_info"]
                    /\ r["image_info"][t] = <<"str", tags[t][2]>>
             /\ \A t \in DOMAIN tags \ (CameraTags \cup ImageTags \cup {"GPSInfo"}) :
                  t \in DOMAIN r["exif_data"]
                    /\ r["exif_data"][t] = <<"str", tags[t][2]>>
             /\ {"Format", "Mode", "Size"} \subseteq DOMAIN r["image_info"]
             /\ ("GPSInfo" \in DOMAIN tags /\ {2, 4} \subseteq DOMAIN call_env.gps_info) =>
                  {"GPSLatitude", "GPSLongitude"} \subseteq DOMAIN r["gps_data"]

\* the secondary source raised after Make, the ISO speed and the coordinates
\* had been classified
C16_Witness ==
  /\ ImageRead
  /\ call_env.secondary_raises
  /\ call_result["error"] = <<"Error reading image EXIF: ", "truncated">>
  /\ "Make" \in DOMAIN call_result["camera_info"]
  /\ call_result["camera_info"]["Make"] = <<"str", "Canon">>
  /\ "ISOSpeedRatings" \in DOMAIN call_result["exif_data"]

\* a direct call has read an existing video (os.stat succeeded)
VideoRead ==
  /\ pc = "extracted"
  /\ Exists(call_path)
  /\ Ext(call_path) \in supported_video_formats
  /\ call_env.stat_ok

\* C17: a probe that is absent, times out or exits non-zero leaves file_info,
\* an empty video_info, no streams and no error; video_info and streams are
\* there only after a zero-exit probe whose JSON was decoded; any other
\* exception, an undecodable output included, gives error = "Error reading
\* video metadata: <cause>".
C17_VideoProbeOutcomes ==
  VideoRead =>
    LET r == call_result
        b == call_env.probe
    IN  /\ "file_info" \in DOMAIN r /\ "video_info" \in DOMAIN r
        /\ b \in {"absent", "timeout", "nonzero"} =>
             /\ DOMAIN r["video_info"] = {}
             /\ "streams" \notin DOMAIN r
             /\ "error" \notin DOMAIN r
        /\ (DOMAIN r["video_info"] # {} \/ "streams" \in DOMAIN r) => b = "ok"
        /\ b = "ok" => ("streams" \in DOMAIN r /\ "error" \notin DOMAIN r)
        /\ b \notin {"absent", "timeout", "nonzero", "ok"} =>
             /\ "error" \in DOMAIN r
             /\ r["error"] = <<"Error reading video metadata: ", call_env.cause>>

\* a probe that exited with 0 and printed what json.loads rejects
C17_Witness ==
  /\ VideoRead
  /\ call_env.probe = "badjson"
  /\ "error" \in DOMAIN call_result
  /\ call_result["error"][1] = "Error reading video metadata: "
  /\ DOMAIN call_result["video_info"] = {}

\* a direct call has read an existing audio file (os.stat succeeded)
AudioRead ==
  /\ pc = "extracted"
  /\ Exists(call_path)
  /\ Ext(call_path) \in supported_audio_formats
  /\ call_env.stat_ok

\* C18: an .mp3 read without the audio-tag library gets an error naming the
\* missing library, next to file_info; a .wav, .flac or .m4a file gets
\* file_info, an empty audio_info, an empty exif_data and no error.
C18_AudioOutcomes ==
  AudioRead =>
    LET r == call_result IN
    /\ (Ext(call_path) = ".mp3" /\ call_env.mutagen = "missing") =>
         /\ "error" \in DOMAIN r
         /\ r["error"] = <<"Install mutagen library for full audio metadata support", "">>
         /\ "file_info" \in DOMAIN r
    /\ Ext(call_path) \in {".wav", ".flac", ".m4a"} =>
         /\ DOMAIN r = {"file_info", "audio_info", "exif_data"}
         /\ DOMAIN r["file_info"] # {}
         /\ DOMAIN r["audio_info"] = {}
         /\ DOMAIN r["exif_data"] = {}

\* an .mp3 read where the library is not installed
C18_Witness ==
  /\ AudioRead
  /\ call_path = Path("song", ".mp3")
  /\ call_env.mutagen = "missing"
  /\ "error" \in DOMAIN call_result
  /\ "file_info" \in DOMAIN call_result

\* r has both decimal GPS fields
HasDecimalPair(r) ==
  /\ "gps_data" \in DOMAIN r
  /\ {"DecimalLatitude", "DecimalLongitude"} \subseteq DOMAIN r["gps_data"]

\* C19: filter_geotagged_files returns exactly the entries whose gps_data has
\* DecimalLatitude and DecimalLongitude, each under its path with its Record,
\* and the dict it was given is the same after the call.
C19_PureGeotagFilter ==
  pc = "filtered" =>
    /\ DOMAIN geotagged = {p \in DOMAIN filter_results : HasDecimalPair(filter_results[p])}
    /\ \A p \in DOMAIN geotagged : geotagged[p] = filter_results[p]
    /\ results_after = filter_results

\* four Records, one with both decimal fields, one with GPS tags that did not
\* decode, one without gps_data, one that is an error: one entry is returned
C19_Witness ==
  /\ pc = "filtered"
  /\ Cardinality(DOMAIN filter_results) = 4
  /\ Cardinality(DOMAIN geotagged) = 1
  /\ \E p \in DOMAIN filter_results :
       /\ "gps_data" \in DOMAIN filter_results[p]
       /\ "GPSLatitude" \in DOMAIN filter_results[p]["gps_data"]
       /\ p \notin DOMAIN geotagged

\* the regular files with a supported extension that scan_directory is to
\* list: below directory_path, at any depth or as direct children
Expected ==
  { e \in fs :
      /\ e.kind = "file"
      /\ Ext(e) \in SupportedExts
      /\ Len(e.dir) >= Len(DirNames(directory_path))
      /\ \A i \in 1..Len(DirNames(directory_path)) : e.dir[i] = DirNames(directory_path)[i]
      /\ ~recursive => Len(e.dir) = Len(DirNames(directory_path)) }

\* C20: scan_directory returns the paths of exactly those files, each once, in
\* ascending order of the path strings; for a path that is no directory it
\* returns the empty list.
C20_ScanSortedSupported ==
  pc = "scanned" =>
    IF directory_path \in fs /\ directory_path.kind = "dir"
    THEN /\ Range(files) = {PathStr(e) : e \in Expected}
         /\ Len(files) = Cardinality(Expected)
         /\ \A i, j \in DOMAIN files : i < j => StrLess(files[i], files[j])
    ELSE files = <<>>

\* a recursive scan of d holding Z.png, a.jpg, a/c.mp4, a/e/b.JPG and
\* notes.txt: "d/Z.png" < "d/a.jpg" < "d/a/c.mp4" < "d/a/e/b.JPG"
C20_Witness ==
  /\ pc = "scanned"
  /\ recursive
  /\ directory_path = Entry(<<>>, "d", "", "dir")
  /\ ScanFiles \subseteq fs
  /\ files = << PathStr(Entry(<<"d">>, "Z", ".png", "file")),
                PathStr(Entry(<<"d">>, "a", ".jpg", "file")),
                PathStr(Entry(<<"d", "a">>, "c", ".mp4", "file")),
                PathStr(Entry(<<"d", "a", "e">>, "b", ".JPG", "file")) >>

Unsupported == ErrorRecord(Msg("Unsupported file format", ""))

\* the suffix in lower case, for the suffixes written in upper or mixed case
LowerCased(s) ==
  IF s = ".JPG" THEN ".jpg" ELSE IF s = ".Mp4" THEN ".mp4"
  ELSE IF s = ".TXT" THEN ".txt" ELSE s

\* C21: is_supported_file(p) is true exactly when the lower-cased extension of
\* p is one of the 16 listed ones; a direct extraction of an existing path
\* returns error = "Unsupported file format" exactly when is_supported_file is
\* false of it; no Record of a map built by process_files carries that error.
C21_SupportAgreesWithDispatch ==
  /\ pc = "checked" => (supported <=> LowerCased(checked_path.suffix) \in SupportedExts)
  /\ (pc = "extracted" /\ Exists(call_path)) =>
       (call_result = Unsupported <=> LowerCased(call_path.suffix) \notin SupportedExts)
  /\ \A p \in DOMAIN results :
       "error" \in DOMAIN results[p] => results[p]["error"][1] # "Unsupported file format"

\* test.JPG is found supported
C21_Witness ==
  /\ pc = "checked"
  /\ checked_path = Path("test", ".JPG")
  /\ supported

\* what C26 says of a state: a unit that was started has had one call of
\* extract_exif_data, a queued one none, and at the return every unit one
C26_Inv ==
  /\ Len(extracted) = Len(future)
  /\ \A i \in DOMAIN future :
       /\ extracted[i] <= 1
       /\ future[i] = "queued" => extracted[i] = 0
       /\ future[i] \in {"running", "done"} => extracted[i] = 1
  /\ pc = "returned" =>
       (Len(future) = NSupported /\ \A i \in DOMAIN future : extracted[i] = 1)

\* C26: extract_exif_data is called exactly once for each submitted unit; a
\* unit whose call has ended, in a Record, an error Record or an exception,
\* stays done with what it produced and is never run again.
C26_NoRetry ==
  /\ []C26_Inv
  /\ [][\A i \in DOMAIN future :
          future[i] = "done" =>
            /\ i \in DOMAIN future'
            /\ future'[i] = "done"
            /\ extracted'[i] = extracted[i]
            /\ outcome'[i] = outcome[i]]_vars

\* a call returned after one unit raised and another gave an error Record
C26_Witness ==
  /\ pc = "returned"
  /\ \E i, j \in DOMAIN future :
       /\ outcome[i].kind = "raised"
       /\ outcome[j].kind = "returned"
       /\ "error" \in DOMAIN outcome[j].value
       /\ extracted[i] = 1
       /\ extracted[j] = 1

\* C27: a supported file that exists at the check of line 30 and is gone when
\* os.stat reads it gives a Record whose only field is error = "Failed to
\* extract EXIF data: <cause>".
C27_VanishedFileRecord ==
  (pc = "extracted" /\ Exists(call_path)
     /\ LowerCased(call_path.suffix) \in SupportedExts /\ ~call_env.stat_ok) =>
    /\ DOMAIN call_result = {"error"}
    /\ call_result["error"] = <<"Failed to extract EXIF data: ", call_env.cause>>

\* a video that vanished before os.stat
C27_Witness ==
  /\ pc = "extracted"
  /\ call_path = Path("clip", ".mp4")
  /\ ~call_env.stat_ok
  /\ DOMAIN call_result = {"error"}

\* C28: after both sources were read, exif_data holds the unclassified tags
\* of the primary source with their primary values and the secondary keys it
\* did not hold yet; camera_info, image_info and gps_data hold nothing of the
\* secondary source.
C28_PrimaryWins ==
  (ImageRead /\ ~call_env.primary_raises /\ ~call_env.secondary_raises) =>
    LET r == call_result
        pt == call_env.primary_tags
        st == call_env.secondary_tags
        other == DOMAIN pt \ (CameraTags \cup ImageTags \cup {"GPSInfo"})
    IN  /\ DOMAIN r["exif_data"] = other \cup DOMAIN st
        /\ \A k \in other : r["exif_data"][k] = <<"str", pt[k][2]>>
        /\ \A k \in DOMAIN st \ other : r["exif_data"][k] = <<"str", st[k][2]>>
        /\ DOMAIN r["camera_info"] = DOMAIN pt \cap CameraTags
        /\ \A k \in DOMAIN r["camera_info"] : r["camera_info"][k] = <<"str", pt[k][2]>>
        /\ DOMAIN r["image_info"] = (DOMAIN pt \cap ImageTags) \cup {"Format", "Mode", "Size"}
        /\ \A k \in DOMAIN pt \cap ImageTags : r["image_info"][k] = <<"str", pt[k][2]>>
        /\ DOMAIN r["gps_data"] \cap DOMAIN st = {}
        /\ "GPSInfo" \notin DOMAIN pt => DOMAIN r["gps_data"] = {}

\* both sources hold ISOSpeedRatings: the primary 100 stays, the secondary
\* exposure time is added
C28_Witness ==
  /\ ImageRead
  /\ ~call_env.primary_raises /\ ~call_env.secondary_raises
  /\ {"ISOSpeedRatings"} \subseteq DOMAIN call_env.primary_tags \cap DOMAIN call_env.secondary_tags
  /\ call_result["exif_data"]["ISOSpeedRatings"] = <<"str", "100">>
  /\ "EXIF ExposureTime" \in DOMAIN call_result["exif_data"]

\* float() rejects a component of value
NumericStepFails(value) ==
  Len(value.comps) = 3 /\ \E i \in 1..3 : ~value.comps[i].num

\* C29: the GPS mapping of a Record always holds every raw entry as a string;
\* when a component of either triple is not a number, it holds nothing else
\* and no error comes of it; DecimalLatitude is there exactly when
\* DecimalLongitude is.
C29_GpsParserTotal ==
  GpsRead =>
    LET d == call_result["gps_data"]
        g == call_env.gps_info
    IN  /\ "DecimalLatitude" \in DOMAIN d <=> "DecimalLongitude" \in DOMAIN d
        /\ \A k \in DOMAIN g :
             GPSTAGS(k) \in DOMAIN d /\ d[GPSTAGS(k)] = <<"str", g[k].text>>
        /\ ({2, 4} \subseteq DOMAIN g
              /\ (NumericStepFails(g[2]) \/ NumericStepFails(g[4]))) =>
             DOMAIN d = {GPSTAGS(k) : k \in DOMAIN g}
        /\ "error" \in DOMAIN call_result <=> call_env.secondary_raises

\* a longitude of three numbers next to a latitude with a component that is
\* no number: the strings are there, the decimal fields are not
C29_Witness ==
  /\ GpsRead
  /\ {2, 4} \subseteq DOMAIN call_env.gps_info
  /\ NumericStepFails(call_env.gps_info[2])
  /\ NumericTriple(call_env.gps_info[4])
  /\ "GPSLatitude" \in DOMAIN call_result["gps_data"]
  /\ "DecimalLongitude" \notin DOMAIN call_result["gps_data"]
  /\ "error" \notin DOMAIN call_result

\* C30: no invocation of the callback reports more units than have been
\* recorded; while the callback runs with (k, N), exactly k units have been
\* taken from as_completed, the Record of each of them is in the map, and the
\* unit being reported is the last one recorded.
C30_ProgressAfterRecord ==
  /\ \A j \in DOMAIN calls : calls[j][1] <= Cardinality(yielded)
  /\ pc = "report" =>
       /\ cur \in yielded
       /\ supported_files[cur] \in DOMAIN results
       /\ Cardinality(yielded) = completed + 1
  /\ pc = "callback" =>
       /\ calls[Len(calls)][1] = Cardinality(yielded)
       /\ calls[Len(calls)][1] = completed
       /\ \A i \in yielded : supported_files[i] \in DOMAIN results
       /\ \A p \in DOMAIN writes : writes[p] = Cardinality(TasksOf(p) \cap yielded)

\* the callback runs with (1, 2): one Record is in the map, the second unit
\* is done on its worker and not yet recorded
C30_Witness ==
  /\ pc = "callback"
  /\ calls = <<<<1, 2>>>>
  /\ Cardinality(DOMAIN results) = 1
  /\ \E i \in DOMAIN future : future[i] = "done" /\ i \notin yielded

\* what C25 says of a returned call: every submitted unit is done and was
\* taken from as_completed, and the map holds a Record for every supported
\* path
C25_Complete ==
  pc = "returned" =>
    /\ Len(future) = NSupported
    /\ \A i \in DOMAIN future : future[i] = "done" /\ i \in yielded
    /\ DOMAIN results = Range(supported_files)

\* C25: when every started extraction ends (and the caller's callback
\* returns), a call of process_files that has begun to submit its units
\* returns; at the return no unit is queued or running and the map is
\* complete; the map is written by the calling thread in its loop only, so no
\* worker writes it, before or after the return.
C25_ReturnsWhenAllDone ==
  /\ (pc = "submit") ~> (pc = "returned")
  /\ []C25_Complete
  /\ [][results' # results => (pc = "wait" /\ pc' = "report")]_vars
  /\ [][pc = "returned" => (results' = results /\ future' = future)]_vars

\* a call over two units on a pool of one worker has returned: the second
\* unit was queued while the first ran
C25_Witness ==
  /\ pc = "returned"
  /\ max_workers = 1
  /\ Len(future) >= 2
  /\ \A i \in DOMAIN future : future[i] = "done" /\ extracted[i] = 1
  /\ Cardinality(DOMAIN results) >= 2

\* the format a token names when case is ignored
FormatToken(t) ==
  IF t \in {"json", "JSON"} THEN "json"
  ELSE IF t \in {"csv", "Csv"} THEN "csv"
  ELSE IF t \in {"txt", "Txt"} THEN "txt"
  ELSE "unrecognized"

ExportEnded == pc \in {"exported", "export raised"}

\* C22: a call of export_data with a token that is not json, csv or txt in any
\* case ends in an exception and leaves no file; a call with a recognized
\* token returns true or false, true exactly when it left the file of that
\* format, and false with no file when the output cannot be opened.
C22_ExportFormatContract ==
  ExportEnded =>
    IF FormatToken(exported_format) = "unrecognized"
    THEN /\ pc = "export raised"
         /\ success = "raised"
         /\ output_file = NoFile
    ELSE /\ pc = "exported"
         /\ success \in {"true", "false"}
         /\ success = "true" <=> output_file.kind = FormatToken(exported_format)
         /\ success = "false" => output_file = NoFile
         /\ ~output_writable => success = "false"

\* export of a dict of three Records with the token xml, to a path that
\* could have been written
C22_Witness ==
  /\ pc = "export raised"
  /\ exported_format = "xml"
  /\ Cardinality(DOMAIN exported_data) >= 3
  /\ output_writable
  /\ output_file = NoFile

\* the Records of the exported dict that have no error field
NonError == {p \in DOMAIN exported_data : "error" \notin DOMAIN exported_data[p]}

\* the prefix of the columns of a sub-mapping
Prefix(sub) ==
  CASE sub = "file_info" -> "File_"
    [] sub = "exif_data" -> "EXIF_"
    [] sub = "gps_data" -> "GPS_"
    [] sub = "camera_info" -> "Camera_"
    [] sub = "image_info" -> "Image_"

\* the flattened column names of a Record
ColumnsOf(r) ==
  {Chars("File Path")}
    \cup UNION { {Chars(Prefix(sub)) \o Chars(k) : k \in DOMAIN r[sub]} :
                 sub \in DOMAIN r \cap {"file_info", "exif_data", "gps_data",
                                        "camera_info", "image_info"} }

\* the rows and the header of a csv export that succeeded: one row per
\* Record without error, the header the sorted union of their columns
CsvContent ==
  success = "true" =>
    /\ output_file.kind = "csv"
    /\ Len(output_file.rows) = Cardinality(NonError)
    /\ \A p \in NonError :
         Cardinality({i \in DOMAIN output_file.rows :
                        output_file.rows[i][Chars("File Path")] = <<p.name, p.suffix>>}) = 1
    /\ Range(output_file.header) = UNION {ColumnsOf(exported_data[p]) : p \in NonError}
    /\ \A i, j \in DOMAIN output_file.header :
         i < j => StrLess(output_file.header[i], output_file.header[j])
    /\ \A i \in DOMAIN output_file.rows :
         DOMAIN output_file.rows[i] = Range(output_file.header)

CsvEnded == pc = "exported" /\ FormatToken(exported_format) = "csv"

FileNameOf(r) ==
  IF "file_info" \in DOMAIN r
  THEN Chars(r["file_info"]["File Name"][1]) \o Chars(r["file_info"]["File Name"][2])
  ELSE <<>>

\* C24: the document of a json export that succeeded parses; the mapping read
\* back has the path keys of the exported dict, one for each, and under every
\* path the keys of its Record and its file_info "File Name".
C24_JsonRoundTrip ==
  (pc = "exported" /\ FormatToken(exported_format) = "json" /\ success = "true") =>
    /\ json_load(output_file).valid
    /\ DOMAIN json_load(output_file).doc = {PathText(p) : p \in DOMAIN exported_data}
    /\ Cardinality(DOMAIN json_load(output_file).doc) = Cardinality(DOMAIN exported_data)
    /\ \A p \in DOMAIN exported_data :
         /\ json_load(output_file).doc[PathText(p)].fields = DOMAIN exported_data[p]
         /\ json_load(output_file).doc[PathText(p)].name = FileNameOf(exported_data[p])

\* a json export of a dict with an error Record and the Record of a file
\* whose name holds a double quote and a backslash
C24_Witness ==
  /\ pc = "exported"
  /\ FormatToken(exported_format) = "json"
  /\ success = "true"
  /\ ExportPaths[4] \in DOMAIN exported_data
  /\ FileNameOf(exported_data[ExportPaths[4]]) = <<113, 34, 92, 110, 46, 106, 112, 103>>
  /\ \E p \in DOMAIN exported_data : "error" \in DOMAIN exported_data[p]

====
